---- MODULE Spec2Model ----
(***************************************************************************)
(* Verification model of the weather aggregation engine in src/main.py:    *)
(* the HTTP fetcher with its bounded retry, the on-disk response cache,    *)
(* the three source adapters, the aggregator and the report formatter.     *)
(*                                                                         *)
(* Python values are modelled as JSON nodes [t, n, s, kids]; Python's None *)
(* is the node JNull (json.loads maps the document null to None as well).  *)
(* Files hold text, modelled as the token sequence json.dumps produces;    *)
(* json.loads is a parser of such sequences.                               *)
(***************************************************************************)
EXTENDS Integers, Sequences, FiniteSets, TLC

----------------------------------------------------------------------------
(* JSON values as Python sees them *)

JNull == [t |-> "null", n |-> 0, s |-> "", kids |-> <<>>]

JNum(x) == [t |-> "num", n |-> x, s |-> "", kids |-> <<>>]

JStr(x) == [t |-> "str", n |-> 0, s |-> x, kids |-> <<>>]

JArr(items) == [t |-> "arr", n |-> 0, s |-> "", kids |-> items]

JKv(key, value) == [t |-> "kv", n |-> 0, s |-> key, kids |-> <<value>>]

JObj(members) == [t |-> "obj", n |-> 0, s |-> "", kids |-> members]

(* Python truthiness: `if data`, `not data` *)
Truthy(v) ==
    CASE v.t = "null" -> FALSE
      [] v.t = "num" -> v.n # 0
      [] v.t = "str" -> v.s # ""
      [] OTHER -> Len(v.kids) > 0

(* `key in data` for a dict *)
HasKey(obj, key) == \E i \in 1..Len(obj.kids) : obj.kids[i].s = key

(* data[key] / data.get(key) for a dict that has the key *)
GetKey(obj, key) ==
    LET i == CHOOSE j \in 1..Len(obj.kids) : obj.kids[j].s = key
    IN  obj.kids[i].kids[1]

(* dict.get(key, default); dict.get(key) is DictGet(obj, key, JNull) *)
DictGet(obj, key, default) == IF HasKey(obj, key) THEN GetKey(obj, key) ELSE default

----------------------------------------------------------------------------
(* json.dumps and json.loads over token sequences *)

Punct(c) == [k |-> "p", s |-> c, n |-> 0]

StrTok(x) == [k |-> "s", s |-> x, n |-> 0]

NumTok(x) == [k |-> "n", s |-> "", n |-> x]

LitTok(x) == [k |-> "l", s |-> x, n |-> 0]

RECURSIVE Dumps(_)
RECURSIVE DumpItems(_, _)
RECURSIVE DumpMembers(_, _)

DumpItems(items, i) ==
    IF i > Len(items) THEN <<>>
    ELSE (IF i > 1 THEN <<Punct(",")>> ELSE <<>>)
         \o Dumps(items[i]) \o DumpItems(items, i + 1)

DumpMembers(members, i) ==
    IF i > Len(members) THEN <<>>
    ELSE (IF i > 1 THEN <<Punct(",")>> ELSE <<>>)
         \o <<StrTok(members[i].s), Punct(":")>>
         \o Dumps(members[i].kids[1]) \o DumpMembers(members, i + 1)

Dumps(v) ==
    CASE v.t = "null" -> <<LitTok("null")>>
      [] v.t = "num" -> <<NumTok(v.n)>>
      [] v.t = "str" -> <<StrTok(v.s)>>
      [] v.t = "arr" -> <<Punct("[")>> \o DumpItems(v.kids, 1) \o <<Punct("]")>>
      [] OTHER -> <<Punct("{")>> \o DumpMembers(v.kids, 1) \o <<Punct("}")>>

ParseFail == [ok |-> FALSE, v |-> JNull, rest |-> <<>>]

ParseOk(v, rest) == [ok |-> TRUE, v |-> v, rest |-> rest]

IsPunct(ts, c) == Len(ts) > 0 /\ ts[1].k = "p" /\ ts[1].s = c

RECURSIVE ParseValue(_)
RECURSIVE ParseItems(_, _)
RECURSIVE ParseMembers(_, _)

ParseItems(ts, acc) ==
    LET r == ParseValue(ts)
    IN  IF ~r.ok THEN ParseFail
        ELSE IF IsPunct(r.rest, ",") THEN ParseItems(Tail(r.rest), Append(acc, r.v))
        ELSE IF IsPunct(r.rest, "]") THEN ParseOk(JArr(Append(acc, r.v)), Tail(r.rest))
        ELSE ParseFail

ParseMembers(ts, acc) ==
    IF Len(ts) < 2 \/ ts[1].k # "s" \/ ~IsPunct(Tail(ts), ":") THEN ParseFail
    ELSE LET r == ParseValue(Tail(Tail(ts)))
             m == JKv(ts[1].s, r.v)
         IN  IF ~r.ok THEN ParseFail
             ELSE IF IsPunct(r.rest, ",") THEN ParseMembers(Tail(r.rest), Append(acc, m))
             ELSE IF IsPunct(r.rest, "}") THEN ParseOk(JObj(Append(acc, m)), Tail(r.rest))
             ELSE ParseFail

ParseValue(ts) ==
    IF Len(ts) = 0 THEN ParseFail
    ELSE CASE ts[1].k = "l" -> IF ts[1].s = "null" THEN ParseOk(JNull, Tail(ts)) ELSE ParseFail
           [] ts[1].k = "n" -> ParseOk(JNum(ts[1].n), Tail(ts))
           [] ts[1].k = "s" -> ParseOk(JStr(ts[1].s), Tail(ts))
           [] IsPunct(ts, "[") ->
                IF IsPunct(Tail(ts), "]") THEN ParseOk(JArr(<<>>), Tail(Tail(ts)))
                ELSE ParseItems(Tail(ts), <<>>)
           [] IsPunct(ts, "{") ->
                IF IsPunct(Tail(ts), "}") THEN ParseOk(JObj(<<>>), Tail(Tail(ts)))
                ELSE ParseMembers(Tail(ts), <<>>)
           [] OTHER -> ParseFail

(* json.loads / response.json(): [ok, v]; ~ok is JSONDecodeError (a ValueError) *)
Loads(text) ==
    LET r == ParseValue(text)
    IN  IF r.ok /\ r.rest = <<>> THEN [ok |-> TRUE, v |-> r.v]
        ELSE [ok |-> FALSE, v |-> JNull]

----------------------------------------------------------------------------
(* Strings the program handles, in Python's (code point) order; the rank  *)
(* of a string stands for its content in comparisons and hashes.          *)

Alphabet ==
    << " ", "/", ":", "Europe/Vilnius", "New", "New York", "Vilnius", "York", "a", "api.open-meteo.com",
       "api.weatherapi.com", "aqi", "b", "current", "current.json", "demo",
       "example.org", "forecast", "format", "ftp", "http", "https", "j1", "key",
       "latitude", "longitude", "no", "q", "temperature_2m", "timezone", "v1",
       "wttr.in", "x", "y" >>

Rank(str) == CHOOSE i \in 1..Len(Alphabet) : Alphabet[i] = str

(* urllib.parse.quote: a URL is a sequence of pieces; the reserved pieces *)
(* outside `safe` are percent-escaped, everything else is kept.           *)
Escape(piece) ==
    CASE piece = ":" -> "%3A"
      [] piece = "/" -> "%2F"
      [] piece = " " -> "%20"
      [] OTHER -> piece

Quote(url, safe) ==
    [i \in 1..Len(url) |-> IF url[i] \in safe THEN url[i] ELSE Escape(url[i])]

(* A parameter dict is the sequence of its (key, value) pairs in insertion *)
(* order; keys are strings and unique, values are JSON nodes.              *)
RECURSIVE Sorted(_)
Sorted(items) ==
    IF Len(items) <= 1 THEN items
    ELSE LET m == CHOOSE i \in 1..Len(items) :
                    \A j \in 1..Len(items) : Rank(items[i][1]) <= Rank(items[j][1])
             rest == [k \in 1..(Len(items) - 1) |-> IF k < m THEN items[k] ELSE items[k + 1]]
         IN  <<items[m]>> \o Sorted(rest)

(* hash() of a str (salted per process), of a number, of a (key, value) tuple *)
StrHash(seed, str) == (Rank(str) * (2 * seed + 1) + seed) % 65536

ValueHash(seed, v) == IF v.t = "num" THEN v.n % 65536 ELSE StrHash(seed, v.s)

TupleHash(seed, pair) == (StrHash(seed, pair[1]) * 31 + ValueHash(seed, pair[2])) % 65536

(* hash(frozenset(...)): a commutative combination of the element hashes *)
RECURSIVE SetHash(_, _)
SetHash(seed, set) ==
    IF set = {} THEN 0
    ELSE LET e == CHOOSE x \in set : TRUE
         IN  (TupleHash(seed, e) + SetHash(seed, set \ {e})) % 65536

FrozenSet(items) == {items[i] : i \in 1..Len(items)}

(* _validate_url had it bool(url) *)
_validate_url_nonempty(url) == Len(url) > 0

(* _validate_url: bool(url and url.startswith(('http://', 'https://'))) *)
_validate_url(url) ==
    /\ Len(url) >= 4
    /\ url[1] \in {"http", "https"}
    /\ url[2] = ":" /\ url[3] = "/" /\ url[4] = "/"

(* `not params` for params: Dict = None; [given |-> FALSE] is None *)
NoParams == [given |-> FALSE, items |-> <<>>]

Params(items) == [given |-> TRUE, items |-> items]

(* hash() of the items taken as a tuple, in the order given *)
RECURSIVE SeqHash(_, _)
SeqHash(seed, items) ==
    IF Len(items) = 0 THEN 0
    ELSE (SeqHash(seed, SubSeq(items, 1, Len(items) - 1)) * 7
          + TupleHash(seed, items[Len(items)])) % 65536

(* _get_cache_key had it hashed tuple(params.items()): no sort, no frozenset *)
_get_cache_key_in_order(seed, url, params) ==
    LET quoted == [i \in 1..Len(url) |-> StrTok(Quote(url, {})[i])]
    IN  IF ~params.given \/ Len(params.items) = 0
        THEN <<StrTok("cache_")>> \o quoted \o <<StrTok(".json")>>
        ELSE <<StrTok("cache_")>> \o quoted
             \o <<StrTok("_"), NumTok(SeqHash(seed, params.items)), StrTok(".json")>>

(* _get_cache_key: the file name as a token sequence *)
_get_cache_key(seed, url, params) ==
    LET quoted == [i \in 1..Len(url) |-> StrTok(Quote(url, {})[i])]
    IN  IF ~params.given \/ Len(params.items) = 0
        THEN <<StrTok("cache_")>> \o quoted \o <<StrTok(".json")>>
        ELSE LET sorted_params == Sorted(params.items)
                 param_hash == SetHash(seed, FrozenSet(sorted_params))
             IN  <<StrTok("cache_")>> \o quoted
                 \o <<StrTok("_"), NumTok(param_hash), StrTok(".json")>>

----------------------------------------------------------------------------
(* Conversions the adapters apply to provider fields.  A conversion yields *)
(* [exc, n]: exc = "" on success, else the exception's class.              *)

Conv(x) == [exc |-> "", n |-> x]

ConvErr(e) == [exc |-> e, n |-> 0]

(* numeric strings the providers send (wttr.in sends every number quoted) *)
IsIntString(str) == str \in {"0", "5", "12", "36", "80", "1013"}

IntOfString(str) ==
    CASE str = "0" -> 0 [] str = "5" -> 5 [] str = "12" -> 12
      [] str = "36" -> 36 [] str = "80" -> 80 [] OTHER -> 1013

(* float(v): a number, or a str that spells one; ValueError for another   *)
(* str, TypeError for None, a list or a dict                              *)
PyFloat(v) ==
    CASE v.t = "num" -> Conv(v.n)
      [] v.t = "str" -> IF IsIntString(v.s) THEN Conv(IntOfString(v.s)) ELSE ConvErr("ValueError")
      [] OTHER -> ConvErr("TypeError")

(* int(v): as float(v) on the values modelled (whole numbers) *)
PyInt(v) == PyFloat(v)

(* x * KPH_TO_MPS, in thousandths of a m/s, rounded to the nearest *)
KphToMps(x) == (x * 10000 + 18) \div 36

(* the first exception raised while the dict literal is evaluated in order *)
FirstExc(excs) ==
    IF \A i \in 1..Len(excs) : excs[i] = "" THEN ""
    ELSE excs[CHOOSE i \in 1..Len(excs) :
                /\ excs[i] # ""
                /\ \A j \in 1..(i - 1) : excs[j] = ""]

(* adapter outcomes: a snapshot, None, or an exception that leaves the adapter *)
NoSnap ==
    [temperature |-> 0, feels_like |-> 0, humidity |-> 0, pressure |-> 0,
     wind_speed |-> 0, wind_direction |-> 0, description |-> JNull,
     source |-> "", city |-> ""]

Returned(snap) == [kind |-> "ok", snap |-> snap, exc |-> ""]

ReturnedNone == [kind |-> "none", snap |-> NoSnap, exc |-> ""]

Raised(e) == [kind |-> "raise", snap |-> NoSnap, exc |-> e]

(* `except (ValueError, TypeError): return None` around an adapter body *)
Caught(e) == IF e \in {"ValueError", "TypeError"} THEN ReturnedNone ELSE Raised(e)

(* the validation had it accept every snapshot *)
_validate_weather_data_lax(snap) == TRUE

(* _validate_weather_data on a snapshot the adapters build: the four       *)
(* required keys are always in the dict; a None value rejects; float() of  *)
(* the temperature (already a float) succeeds                              *)
_validate_weather_data(snap) == snap.description.t # "null"

(* open_meteo_weather_codes.get(weather_code, "Unknown") *)
KnownCode(c) ==
    c \in {0, 1, 2, 3, 45, 48, 51, 53, 55, 56, 57, 61, 63, 65, 66, 67,
           71, 73, 75, 77, 80, 81, 82, 85, 86, 95, 96, 99}

CodeText(c) ==
    CASE c = 0 -> "Clear sky" [] c = 1 -> "Mainly clear" [] c = 2 -> "Partly cloudy"
      [] c = 3 -> "Overcast" [] c = 45 -> "Fog" [] c = 48 -> "Depositing rime fog"
      [] c = 51 -> "Light drizzle" [] c = 53 -> "Moderate drizzle" [] c = 55 -> "Dense drizzle"
      [] c = 56 -> "Light freezing drizzle" [] c = 57 -> "Dense freezing drizzle"
      [] c = 61 -> "Slight rain" [] c = 63 -> "Moderate rain" [] c = 65 -> "Heavy rain"
      [] c = 66 -> "Light freezing rain" [] c = 67 -> "Heavy freezing rain"
      [] c = 71 -> "Slight snow fall" [] c = 73 -> "Moderate snow fall" [] c = 75 -> "Heavy snow fall"
      [] c = 77 -> "Snow grains"
      [] c = 80 -> "Slight rain showers" [] c = 81 -> "Moderate rain showers"
      [] c = 82 -> "Violent rain showers"
      [] c = 85 -> "Slight snow showers" [] c = 86 -> "Heavy snow showers"
      [] c = 95 -> "Thunderstorm" [] c = 96 -> "Thunderstorm with slight hail"
      [] OTHER -> "Thunderstorm with heavy hail"

(* the table had it be indexed, open_meteo_weather_codes[weather_code] *)
open_meteo_weather_codes_index(weather_code) ==
    CASE weather_code.t \in {"arr", "obj"} -> [exc |-> "TypeError", v |-> JNull]
      [] weather_code.t = "num" /\ KnownCode(weather_code.n) ->
            [exc |-> "", v |-> JStr(CodeText(weather_code.n))]
      [] OTHER -> [exc |-> "KeyError", v |-> JNull]

(* [exc, v]: TypeError for an unhashable code (a list or a dict) *)
open_meteo_weather_codes_get(weather_code) ==
    CASE weather_code.t \in {"arr", "obj"} -> [exc |-> "TypeError", v |-> JNull]
      [] weather_code.t = "num" /\ KnownCode(weather_code.n) ->
            [exc |-> "", v |-> JStr(CodeText(weather_code.n))]
      [] OTHER -> [exc |-> "", v |-> JStr("Unknown")]

(* `key in data` for a truthy document: a dict has the key, a list holds   *)
(* the string, a str contains it; a number raises TypeError                *)
Contains(data, key) ==
    CASE data.t = "obj" -> HasKey(data, key)
      [] data.t = "arr" -> \E i \in 1..Len(data.kids) : data.kids[i] = JStr(key)
      [] OTHER -> data.s = key

(* v[0]: [exc, v] *)
Index0(v) ==
    CASE v.t = "arr" -> IF Len(v.kids) > 0 THEN [exc |-> "", v |-> v.kids[1]]
                        ELSE [exc |-> "IndexError", v |-> JNull]
      [] v.t = "str" -> IF v.s # "" THEN [exc |-> "", v |-> v]
                        ELSE [exc |-> "IndexError", v |-> JNull]
      [] v.t = "obj" -> [exc |-> "KeyError", v |-> JNull]
      [] OTHER -> [exc |-> "TypeError", v |-> JNull]

(* get_open_meteo, from the value _make_request returned *)
get_open_meteo(data, city) ==
    IF ~Truthy(data) THEN ReturnedNone
    ELSE IF data.t = "num" THEN Caught("TypeError")
    ELSE IF ~Contains(data, "current") THEN ReturnedNone
    ELSE IF data.t # "obj" THEN Caught("TypeError")
    ELSE LET current == GetKey(data, "current")
         IN  IF current.t # "obj" THEN Caught("AttributeError")
             ELSE LET temperature == DictGet(current, "temperature_2m", JNull)
                  IN  IF temperature.t = "null" THEN ReturnedNone
                      ELSE LET weather_code == DictGet(current, "weather_code", JNull)
                               description == open_meteo_weather_codes_get(weather_code)
                               t == PyFloat(temperature)
                               f == PyFloat(DictGet(current, "apparent_temperature", temperature))
                               h == PyFloat(DictGet(current, "relative_humidity_2m", JNum(0)))
                               p == PyFloat(DictGet(current, "pressure_msl", JNum(0)))
                               w == PyFloat(DictGet(current, "wind_speed_10m", JNum(0)))
                               d == PyFloat(DictGet(current, "wind_direction_10m", JNum(0)))
                               exc == FirstExc(<<description.exc, t.exc, f.exc, h.exc,
                                                 p.exc, w.exc, d.exc>>)
                               weather_data ==
                                   [temperature |-> t.n, feels_like |-> f.n,
                                    humidity |-> h.n, pressure |-> p.n,
                                    wind_speed |-> w.n * 1000, wind_direction |-> d.n,
                                    description |-> description.v,
                                    source |-> "Open-Meteo", city |-> city]
                           IN  IF exc # "" THEN Caught(exc)
                               ELSE IF _validate_weather_data(weather_data)
                                    THEN Returned(weather_data)
                                    ELSE ReturnedNone

(* get_weather_api, from the value _make_request returned *)
get_weather_api(data, city) ==
    IF ~Truthy(data) THEN ReturnedNone
    ELSE IF data.t = "num" THEN Caught("TypeError")
    ELSE IF ~Contains(data, "current") THEN ReturnedNone
    ELSE IF data.t # "obj" THEN Caught("TypeError")
    ELSE LET current == GetKey(data, "current")
         IN  IF current.t # "obj" THEN Caught("AttributeError")
             ELSE LET temperature == DictGet(current, "temp_c", JNull)
                  IN  IF temperature.t = "null" THEN ReturnedNone
                      ELSE LET t == PyFloat(temperature)
                               f == PyFloat(DictGet(current, "feelslike_c", temperature))
                               h == PyFloat(DictGet(current, "humidity", JNum(0)))
                               p == PyFloat(DictGet(current, "pressure_mb", JNum(0)))
                               w == PyFloat(DictGet(current, "wind_kph", JNum(0)))
                               d == PyFloat(DictGet(current, "wind_degree", JNum(0)))
                               condition == DictGet(current, "condition", JObj(<<>>))
                               cexc == IF condition.t = "obj" THEN "" ELSE "AttributeError"
                               text == IF condition.t = "obj"
                                       THEN DictGet(condition, "text", JStr("Unknown"))
                                       ELSE JNull
                               exc == FirstExc(<<t.exc, f.exc, h.exc, p.exc, w.exc, d.exc, cexc>>)
                               weather_data ==
                                   [temperature |-> t.n, feels_like |-> f.n,
                                    humidity |-> h.n, pressure |-> p.n,
                                    wind_speed |-> KphToMps(w.n), wind_direction |-> d.n,
                                    description |-> text,
                                    source |-> "WeatherAPI", city |-> city]
                           IN  IF exc # "" THEN Caught(exc)
                               ELSE IF _validate_weather_data(weather_data)
                                    THEN Returned(weather_data)
                                    ELSE ReturnedNone

(* get_wttr_in, from the value _make_request returned *)
get_wttr_in(data, city) ==
    IF ~Truthy(data) THEN ReturnedNone
    ELSE IF data.t = "num" THEN Caught("TypeError")
    ELSE IF ~Contains(data, "current_condition") THEN ReturnedNone
    ELSE IF data.t # "obj" THEN Caught("TypeError")
    ELSE IF ~Truthy(GetKey(data, "current_condition")) THEN ReturnedNone
    ELSE LET first == Index0(GetKey(data, "current_condition"))
             current == first.v
         IN  IF first.exc # "" THEN Caught(first.exc)
             ELSE IF current.t # "obj" THEN Caught("AttributeError")
             ELSE LET temp_c == DictGet(current, "temp_C", JNull)
                  IN  IF temp_c.t = "null" THEN ReturnedNone
                      ELSE LET t == PyFloat(temp_c)
                               f == PyFloat(DictGet(current, "FeelsLikeC", temp_c))
                               h == PyInt(DictGet(current, "humidity", JNum(0)))
                               p == PyInt(DictGet(current, "pressure", JNum(0)))
                               w == PyFloat(DictGet(current, "windspeedKmph", JNum(0)))
                               d == PyInt(DictGet(current, "winddirDegree", JNum(0)))
                               desc0 == Index0(DictGet(current, "weatherDesc",
                                                       JArr(<<JObj(<<>>)>>)))
                               dexc == IF desc0.exc # "" THEN desc0.exc
                                       ELSE IF desc0.v.t = "obj" THEN "" ELSE "AttributeError"
                               value == IF dexc = ""
                                        THEN DictGet(desc0.v, "value", JStr("Unknown"))
                                        ELSE JNull
                               exc == FirstExc(<<t.exc, f.exc, h.exc, p.exc, w.exc, d.exc, dexc>>)
                               weather_data ==
                                   [temperature |-> t.n, feels_like |-> f.n,
                                    humidity |-> h.n, pressure |-> p.n,
                                    wind_speed |-> KphToMps(w.n), wind_direction |-> d.n,
                                    description |-> value,
                                    source |-> "wttr.in", city |-> city]
                           IN  IF exc # "" THEN Caught(exc)
                               ELSE IF _validate_weather_data(weather_data)
                                    THEN Returned(weather_data)
                                    ELSE ReturnedNone

----------------------------------------------------------------------------
(* format_weather_report: the report as its sequence of lines, a line      *)
(* being [k, n, s]: what it says, the number shown (temperatures and wind  *)
(* in tenths, as `.1f` prints them) and the text shown                     *)

Line(k, n, str) == [k |-> k, n |-> n, s |-> str]

(* the average had its second decimal dropped instead of rounded *)
AvgTenths_cut(sum, len) == (10 * sum) \div len

(* round(sum / len, 1) in tenths, as f"{avg_temp:.1f}" prints it *)
AvgTenths(sum, len) == (20 * sum + len) \div (2 * len)

RECURSIVE SumTemps(_)
SumTemps(results) ==
    IF Len(results) = 0 THEN 0
    ELSE results[1].data.temperature + SumTemps(Tail(results))

SourceBlock(entry) ==
    << Line("source", 0, entry.name),
       Line("Temperature", entry.data.temperature * 10, ""),
       Line("Feels like", entry.data.feels_like * 10, ""),
       Line("Conditions", entry.data.description.n, entry.data.description.s),
       Line("Humidity", entry.data.humidity, ""),
       Line("Pressure", entry.data.pressure, ""),
       Line("Wind", (entry.data.wind_speed + 50) \div 100, ""),
       Line("blank", 0, "") >>

RECURSIVE SourceBlocks(_)
SourceBlocks(results) ==
    IF Len(results) = 0 THEN <<>>
    ELSE SourceBlock(results[1]) \o SourceBlocks(Tail(results))

(* the report had it count the sources asked, not the sources in `results` *)
format_weather_report_asked(results, clock) ==
    IF Len(results) = 0
    THEN << Line("No weather data could be retrieved from any source.", 0, "") >>
    ELSE << Line("REPORT", 0, results[1].data.city),
            Line("rule", 40, "="),
            Line("Generated", clock, ""),
            Line("blank", 0, "") >>
         \o SourceBlocks(results)
         \o << Line("Average Temperature", AvgTenths(SumTemps(results), Len(results)), "") >>
         \o << Line("Successful sources", 3, "") >>

(* the report had it leave the average out *)
format_weather_report_no_average(results, clock) ==
    IF Len(results) = 0
    THEN << Line("No weather data could be retrieved from any source.", 0, "") >>
    ELSE << Line("REPORT", 0, results[1].data.city),
            Line("rule", 40, "="),
            Line("Generated", clock, ""),
            Line("blank", 0, "") >>
         \o SourceBlocks(results)
         \o << Line("Successful sources", Len(results), "") >>

format_weather_report(results, clock) ==
    IF Len(results) = 0
    THEN << Line("No weather data could be retrieved from any source.", 0, "") >>
    ELSE << Line("REPORT", 0, results[1].data.city),
            Line("rule", 40, "="),
            Line("Generated", clock, ""),
            Line("blank", 0, "") >>
         \o SourceBlocks(results)
         \o << Line("Average Temperature", AvgTenths(SumTemps(results), Len(results)), "") >>
         \o << Line("Successful sources", Len(results), "") >>

----------------------------------------------------------------------------
(* WeatherAPIConfig *)

retry_attempts == 2

cache_ttl == 3600

max_cache_age_days == 7

(* request_delay = 0.5, in milliseconds *)
request_delay == 500

(* bounds of the model *)
MaxRuns == 2

MaxTicks == 1

MaxDamaged == 1

MaxCalls == 2

(* the salt of hash() is drawn once per process; runs under different      *)
(* salts differ only in the names of the cache files, so the process       *)
(* modelled has one salt, and the key function is examined under several   *)
Seeds == {1}

KeySeeds == {0, 1, 2}

----------------------------------------------------------------------------
(* The cache directory.  files maps the name of each file in it to         *)
(* [text, mtime, readable].                                                *)

(* _load_cached_response: the document, or None (JNull) *)
(* the lookup had it `file_age <= cache_ttl` *)
_load_cached_response_inclusive(fs, cache_file, clock, enable_cache) ==
    IF ~enable_cache THEN JNull
    ELSE IF cache_file \notin DOMAIN fs THEN JNull
    ELSE IF clock - fs[cache_file].mtime <= cache_ttl /\ fs[cache_file].readable
    THEN LET doc == Loads(fs[cache_file].text) IN IF doc.ok THEN doc.v ELSE JNull
    ELSE JNull

(* the lookup had it no test of the file's age *)
_load_cached_response_any_age(fs, cache_file, clock, enable_cache) ==
    IF ~enable_cache THEN JNull
    ELSE IF cache_file \notin DOMAIN fs THEN JNull
    ELSE IF fs[cache_file].readable
    THEN LET doc == Loads(fs[cache_file].text) IN IF doc.ok THEN doc.v ELSE JNull
    ELSE JNull

_load_cached_response(fs, cache_file, clock, enable_cache) ==
    IF ~enable_cache THEN JNull
    ELSE IF cache_file \notin DOMAIN fs THEN JNull
    ELSE LET file_age == clock - fs[cache_file].mtime
         IN  IF file_age < cache_ttl
             THEN IF ~fs[cache_file].readable THEN JNull
                  ELSE LET doc == Loads(fs[cache_file].text)
                       IN  IF doc.ok THEN doc.v ELSE JNull
             ELSE JNull

(* the disk operations _load_cached_response performs *)
LoadOps(fs, cache_file, clock, enable_cache) ==
    IF ~enable_cache THEN {}
    ELSE IF cache_file \notin DOMAIN fs THEN {"exists"}
    ELSE IF clock - fs[cache_file].mtime < cache_ttl THEN {"exists", "stat", "read"}
    ELSE {"exists", "stat"}

(* write_text had it write nothing and raise nothing *)
WriteText_lost(fs, name, text, clock, disk) == fs

(* Path.write_text: the files after it, by what the disk does.  "ok"       *)
(* writes; "openfail" raises before the file is touched; "partial" raises  *)
(* after the file was truncated.  A file without permissions cannot be     *)
(* opened.                                                                 *)
WriteText(fs, name, text, clock, disk) ==
    LET put(t) == [n \in DOMAIN fs \cup {name} |->
                     IF n = name THEN [text |-> t, mtime |-> clock, readable |-> TRUE]
                     ELSE fs[n]]
    IN  IF name \in DOMAIN fs /\ ~fs[name].readable THEN fs
        ELSE CASE disk = "ok" -> put(text)
               [] disk = "partial" -> put(<<>>)
               [] OTHER -> fs

(* _cache_response: the files after it *)
_cache_response(fs, cache_file, data, clock, enable_cache, disk) ==
    IF ~enable_cache THEN fs
    ELSE WriteText(fs, cache_file, Dumps(data), clock, disk)

(* _clean_old_cache: the files after the sweep; the files in `stuck`       *)
(* cannot be unlinked (OSError, swallowed)                                 *)
(* the sweep had it take cache_ttl for the retention horizon *)
OldFiles_ttl(fs, clock) == {n \in DOMAIN fs : fs[n].mtime < clock - cache_ttl}

OldFiles(fs, clock) ==
    {n \in DOMAIN fs : fs[n].mtime < clock - max_cache_age_days * 86400}

_clean_old_cache(fs, clock, stuck) ==
    [n \in DOMAIN fs \ (OldFiles(fs, clock) \ stuck) |-> fs[n]]

CleanOps(fs, clock) ==
    {"glob"} \cup (IF DOMAIN fs # {} THEN {"stat"} ELSE {})
             \cup (IF OldFiles(fs, clock) # {} THEN {"unlink"} ELSE {})

----------------------------------------------------------------------------
(* The requests of the three adapters *)

(* a str as the pieces quote() sees *)
Pieces(str) == IF str = "New York" THEN <<"New", " ", "York">> ELSE <<str>>

api_functions == <<"Open-Meteo", "wttr.in", "WeatherAPI">>

AdapterUrl(name, eng) ==
    CASE name = "Open-Meteo" ->
            <<"https", ":", "/", "/", "api.open-meteo.com", "/", "v1", "/", "forecast">>
      [] name = "WeatherAPI" ->
            <<"http", ":", "/", "/", "api.weatherapi.com", "/", "v1", "/", "current.json">>
      [] OTHER -> <<"https", ":", "/", "/", "wttr.in", "/">> \o Quote(Pieces(eng.city), {"/"})

AdapterParams(name, eng) ==
    CASE name = "Open-Meteo" ->
            Params(<< <<"latitude", JNum(eng.latitude)>>, <<"longitude", JNum(eng.longitude)>>,
                      <<"current", JStr("temperature_2m")>>,
                      <<"timezone", JStr("Europe/Vilnius")>> >>)
      [] name = "WeatherAPI" ->
            Params(<< <<"key", JStr(eng.weather_api_key)>>, <<"q", JStr(eng.city)>>,
                      <<"aqi", JStr("no")>> >>)
      [] OTHER -> Params(<< <<"format", JStr("j1")>> >>)

(* the adapters had it return a snapshot of defaults where they return None *)
AdapterBody_partial(name, data, eng) ==
    LET r == CASE name = "Open-Meteo" -> get_open_meteo(data, eng.city)
               [] name = "WeatherAPI" -> get_weather_api(data, eng.city)
               [] OTHER -> get_wttr_in(data, eng.city)
    IN  IF r.kind = "none"
        THEN Returned([NoSnap EXCEPT !.source = name, !.city = eng.city,
                                     !.description = JStr("Unknown")])
        ELSE r

AdapterBody(name, data, eng) ==
    CASE name = "Open-Meteo" -> get_open_meteo(data, eng.city)
      [] name = "WeatherAPI" -> get_weather_api(data, eng.city)
      [] OTHER -> get_wttr_in(data, eng.city)

----------------------------------------------------------------------------
(* What the network may answer to one GET *)

Timeout == [kind |-> "timeout", body |-> <<>>]

ConnectionError == [kind |-> "connerr", body |-> <<>>]

HTTPError == [kind |-> "http", body |-> <<>>]

Ok(body) == [kind |-> "ok", body |-> body]

(* a 2xx body that is not JSON *)
NotJson == <<LitTok("<html>")>>

OpenMeteoDocs ==
    { JObj(<<JKv("current", JObj(<<JKv("temperature_2m", JNum(10)),
                                    JKv("weather_code", JNum(3))>>))>>),
      JObj(<<JKv("current", JObj(<<JKv("weather_code", JNum(3))>>))>>),
      JObj(<<JKv("latitude", JNum(54))>>),
      JObj(<<JKv("current", JNull)>>) }

WttrDocs ==
    { JObj(<<JKv("current_condition",
                 JArr(<<JObj(<<JKv("temp_C", JStr("12")),
                               JKv("windspeedKmph", JStr("36")),
                               JKv("weatherDesc", JArr(<<JObj(<<JKv("value", JStr("Sunny"))>>)>>))
                             >>)>>))>>),
      JObj(<<JKv("current_condition", JArr(<<JObj(<<JKv("humidity", JStr("80"))>>)>>))>>),
      JObj(<<JKv("current_condition", JArr(<<>>))>>),
      JObj(<<JKv("request", JArr(<<>>))>>) }

WeatherApiDocs ==
    { JObj(<<JKv("current", JObj(<<JKv("temp_c", JNum(20)), JKv("wind_kph", JNum(36)),
                                    JKv("condition", JObj(<<JKv("text", JStr("Sunny"))>>))>>))>>),
      JObj(<<JKv("current", JObj(<<JKv("humidity", JNum(80))>>))>>),
      JObj(<<JKv("location", JObj(<<JKv("name", JStr("Vilnius"))>>))>>),
      JObj(<<JKv("current", JObj(<<JKv("temp_c", JNum(20)),
                                    JKv("condition", JObj(<<JKv("text", JNull)>>))>>))>>) }

ProviderDocs(name) ==
    CASE name = "Open-Meteo" -> OpenMeteoDocs
      [] name = "WeatherAPI" -> WeatherApiDocs
      [] OTHER -> WttrDocs

(* the documents served to direct calls of _make_request *)
PlainDocs == {JObj(<<JKv("a", JNum(1))>>), JObj(<<>>), JNull}

Failures == {ConnectionError, HTTPError, Ok(NotJson)}

Answers(docs) == Failures \cup {Ok(Dumps(d)) : d \in docs}

(* the answers the network would give to the GETs of one request, in       *)
(* order; a plan ends with its first answer that is not a timeout, and a   *)
(* GET beyond the plan times out                                           *)
Timeouts(k) == [i \in 1..k |-> Timeout]

NetPlans(docs) ==
    {Timeouts(k) \o <<a>> : k \in 0..(retry_attempts - 1), a \in Answers(docs)}
        \cup {Timeouts(retry_attempts)}

Answer(net, i) == IF i <= Len(net) THEN net[i] ELSE Timeout

DiskPlans == {"ok", "openfail", "partial"}

----------------------------------------------------------------------------
(* _make_request, as the value it returns and what it does on the way:     *)
(* [ret, files, ops, trace, probe].  trace lists the events of the call in *)
(* order: "lookup", "get", "write", "sleep"; probe is the cache file as    *)
(* the lookup found it; ops are the disk operations performed.             *)

NoProbe == [looked |-> FALSE, exists |-> FALSE, age |-> 0, text |-> <<>>, readable |-> FALSE]

Probe(fs, cache_file, clock) ==
    IF cache_file \in DOMAIN fs
    THEN [looked |-> TRUE, exists |-> TRUE, age |-> clock - fs[cache_file].mtime,
          text |-> fs[cache_file].text, readable |-> fs[cache_file].readable]
    ELSE [NoProbe EXCEPT !.looked = TRUE]

Done(ret, fs, ops, trace, probe) ==
    [ret |-> ret, files |-> fs, ops |-> ops, trace |-> trace, probe |-> probe]

(* the retry loop had it one pass more than config.retry_attempts *)
RECURSIVE RetryLoop_one_more(_, _, _, _, _)
RetryLoop_one_more(c, attempt, fs, ops, trace) ==
    IF attempt >= retry_attempts + 1 THEN Done(JNull, fs, ops, trace, c.probe)
    ELSE LET response == Answer(c.net, attempt + 1)
             data == Loads(response.body)
         IN  CASE response.kind = "timeout" ->
                     IF attempt = retry_attempts
                     THEN Done(JNull, fs, ops, Append(trace, "get"), c.probe)
                     ELSE RetryLoop_one_more(c, attempt + 1, fs, ops,
                                             trace \o <<"get", "sleep">>)
               [] response.kind = "ok" /\ data.ok ->
                     IF c.enable_cache /\ c.has_cache_file
                     THEN Done(data.v,
                               _cache_response(fs, c.cache_file, data.v, c.clock,
                                               c.enable_cache, c.disk),
                               ops \cup {"write"}, trace \o <<"get", "write">>, c.probe)
                     ELSE Done(data.v, fs, ops, Append(trace, "get"), c.probe)
               [] OTHER -> Done(JNull, fs, ops, Append(trace, "get"), c.probe)

(* the retry loop had it retried after any failed GET, not only a timeout *)
RECURSIVE RetryLoop_any_failure(_, _, _, _, _)
RetryLoop_any_failure(c, attempt, fs, ops, trace) ==
    IF attempt >= retry_attempts THEN Done(JNull, fs, ops, trace, c.probe)
    ELSE LET response == Answer(c.net, attempt + 1)
             data == Loads(response.body)
         IN  CASE response.kind = "ok" /\ data.ok ->
                     IF c.enable_cache /\ c.has_cache_file
                     THEN Done(data.v,
                               _cache_response(fs, c.cache_file, data.v, c.clock,
                                               c.enable_cache, c.disk),
                               ops \cup {"write"}, trace \o <<"get", "write">>, c.probe)
                     ELSE Done(data.v, fs, ops, Append(trace, "get"), c.probe)
               [] OTHER ->
                     IF attempt = retry_attempts - 1
                     THEN Done(JNull, fs, ops, Append(trace, "get"), c.probe)
                     ELSE RetryLoop_any_failure(c, attempt + 1, fs, ops,
                                                trace \o <<"get", "sleep">>)

(* lines 143-163: the retry loop from pass `attempt` on; c is the call's   *)
(* context: enable_cache, cache_file, clock, net, disk, probe              *)
RECURSIVE RetryLoop(_, _, _, _, _)
RetryLoop(c, attempt, fs, ops, trace) ==
    IF attempt >= retry_attempts THEN Done(JNull, fs, ops, trace, c.probe)
    ELSE LET response == Answer(c.net, attempt + 1)
             data == Loads(response.body)
         IN  CASE response.kind = "timeout" ->
                     IF attempt = retry_attempts - 1
                     THEN Done(JNull, fs, ops, Append(trace, "get"), c.probe)
                     ELSE RetryLoop(c, attempt + 1, fs, ops, trace \o <<"get", "sleep">>)
               [] response.kind = "ok" /\ data.ok ->
                     IF c.enable_cache /\ c.has_cache_file
                     THEN Done(data.v,
                               _cache_response(fs, c.cache_file, data.v, c.clock,
                                               c.enable_cache, c.disk),
                               ops \cup {"write"}, trace \o <<"get", "write">>, c.probe)
                     ELSE Done(data.v, fs, ops, Append(trace, "get"), c.probe)
               [] OTHER -> Done(JNull, fs, ops, Append(trace, "get"), c.probe)

(* _make_request had it give up when the cache file cannot be read or      *)
(* decoded, instead of going to the network                                *)
_make_request_cache_fatal(eng, seed, fs, clock, url, params, net, disk) ==
    IF ~_validate_url(url) THEN Done(JNull, fs, {}, <<>>, NoProbe)
    ELSE IF eng.enable_cache
    THEN LET cache_file == _get_cache_key(seed, url, params)
             cached_data == _load_cached_response(fs, cache_file, clock, eng.enable_cache)
             probe == Probe(fs, cache_file, clock)
             ops == LoadOps(fs, cache_file, clock, eng.enable_cache)
             c == [enable_cache |-> TRUE, has_cache_file |-> TRUE, cache_file |-> cache_file,
                   clock |-> clock, net |-> net, disk |-> disk, probe |-> probe]
         IN  IF Truthy(cached_data) THEN Done(cached_data, fs, ops, <<"lookup">>, probe)
             ELSE IF probe.exists /\ (~probe.readable \/ ~Loads(probe.text).ok)
             THEN Done(JNull, fs, ops, <<"lookup">>, probe)
             ELSE RetryLoop(c, 0, fs, ops, <<"lookup">>)
    ELSE RetryLoop([enable_cache |-> FALSE, has_cache_file |-> FALSE, cache_file |-> <<>>,
                    clock |-> clock, net |-> net, disk |-> disk, probe |-> NoProbe],
                   0, fs, {}, <<>>)

_make_request(eng, seed, fs, clock, url, params, net, disk) ==
    IF ~_validate_url(url) THEN Done(JNull, fs, {}, <<>>, NoProbe)
    ELSE IF eng.enable_cache
    THEN LET cache_file == _get_cache_key(seed, url, params)
             cached_data == _load_cached_response(fs, cache_file, clock, eng.enable_cache)
             probe == Probe(fs, cache_file, clock)
             ops == LoadOps(fs, cache_file, clock, eng.enable_cache)
             c == [enable_cache |-> TRUE, has_cache_file |-> TRUE, cache_file |-> cache_file,
                   clock |-> clock, net |-> net, disk |-> disk, probe |-> probe]
         IN  IF Truthy(cached_data) THEN Done(cached_data, fs, ops, <<"lookup">>, probe)
             ELSE RetryLoop(c, 0, fs, ops, <<"lookup">>)
    ELSE RetryLoop([enable_cache |-> FALSE, has_cache_file |-> FALSE, cache_file |-> <<>>,
                    clock |-> clock, net |-> net, disk |-> disk, probe |-> NoProbe],
                   0, fs, {}, <<>>)

----------------------------------------------------------------------------
VARIABLES
    now,        \* time.time(), in seconds
    ticks,      \* how often the clock was advanced
    hashSeed,   \* the salt of hash() in this process
    dirExists,  \* whether .weather_cache exists
    files,      \* the files of .weather_cache
    diskOps,    \* the disk operations of the live engine since its construction
    engine,     \* the live FreeWeatherAPI: city, latitude, longitude, enable_cache, weather_api_key
    call,       \* the last direct call of _make_request: its arguments, the network's
                \* and the disk's behaviour during it, what it returned and did
    apc,        \* get_all_weather_data: "idle", "loop", "done" (returned), "raised"
    idx,        \* the position in api_functions of the next adapter
    results,    \* the dict under construction, as its (name, data) entries in insertion order
    outcomes,   \* per adapter invoked in this run: what _make_request returned to it and
                \* how it ended ("ok", "none", "raise")
    pass,       \* the last pass of the loop: its number, its adapter, the GETs it issued,
                \* the time slept after it
    report,     \* the report of the last run
    runs,       \* the engines constructed
    calls,      \* the direct calls of the engine's methods made
    stored,     \* the last direct call of _cache_response
    loaded,     \* the last direct call of _load_cached_response
    keyed,      \* the last direct call of _get_cache_key
    swept,      \* the last construction observed: the files before and after its sweep
    city_var,   \* WeatherAppGUI: the text of the city entry
    lat_var,    \* the text of the latitude entry
    lon_var,    \* the text of the longitude entry
    enable_cache_var,  \* the cache checkbox
    is_fetching,       \* the flag fetch_weather sets and _fetch_complete clears
    fetch_btn,  \* the state of the fetch button: "normal" or "disabled"
    progress,   \* whether the progress bar runs
    status_var, \* the status line
    weather_text,      \* the weather tab: what it shows
    raw_text,   \* the raw tab: the report it shows
    thread,     \* the worker thread: where it is and the arguments it was started with
    scheduled,  \* the callbacks queued with root.after(0, ...), oldest first
    clicked     \* the calls of fetch_weather: how many (modulo 2), and of the last one
                \* the message box it showed and the checkbox as it was

vars == <<now, ticks, hashSeed, dirExists, files, diskOps, engine, call,
          apc, idx, results, outcomes, pass, report, runs, calls, stored, loaded, keyed,
          swept, city_var, lat_var, lon_var, enable_cache_var, is_fetching, fetch_btn,
          progress, status_var, weather_text, raw_text, thread, scheduled, clicked>>

entryVars == <<city_var, lat_var, lon_var, enable_cache_var>>

windowVars == <<is_fetching, fetch_btn, progress, status_var, weather_text, raw_text>>

guiVars == <<entryVars, windowVars, thread, scheduled, clicked>>

unitVars == <<call, calls, stored, loaded, keyed, swept>>

envVars == <<now, ticks, hashSeed>>

diskVars == <<dirExists, files, diskOps>>

runVars == <<apc, idx, results, outcomes, pass, report>>

NoPass == [n |-> 0, name |-> "", gets |-> 0, slept |-> 0]

NoEngine ==
    [city |-> "", latitude |-> 0, longitude |-> 0, enable_cache |-> FALSE,
     weather_api_key |-> "", live |-> FALSE]

NoCall ==
    [made |-> FALSE, url |-> <<>>, params |-> NoParams, net |-> <<>>, disk |-> "ok",
     enable_cache |-> FALSE, at |-> 0, before |-> <<>>, after |-> <<>>, ret |-> JNull,
     trace |-> <<>>, probe |-> NoProbe]

NoStore == [made |-> FALSE, n |-> 0, file |-> <<>>, data |-> JNull, disk |-> "ok",
            enable_cache |-> FALSE, at |-> 0, writable |-> FALSE]

NoLoad == [made |-> FALSE, n |-> 0, file |-> <<>>, got |-> JNull, enable_cache |-> FALSE,
           at |-> 0, before |-> <<>>, after |-> <<>>]

NoKey == [made |-> FALSE, seed |-> 0, url |-> <<>>, params |-> NoParams, key |-> <<>>]

NoSweep == [made |-> FALSE, enable_cache |-> FALSE, at |-> 0, stuck |-> {},
            before |-> <<>>, after |-> <<>>]

Locations == {[city |-> "Vilnius", latitude |-> 54, longitude |-> 25]}

(* a Text widget by what it shows: nothing (""), the snapshots of n        *)
(* sources for a city ("results"), the no-data advice ("nodata") or an     *)
(* error message ("error")                                                 *)
Shown(kind, city, n) == [kind |-> kind, city |-> city, n |-> n]

NoText == Shown("", "", 0)

(* the status line by what it says *)
Status(k, city, n) == [k |-> k, city |-> city, n |-> n]

NoThread == [pc |-> "none", city |-> "", lat |-> 0, lon |-> 0]

NoClick == [n |-> 0, dialog |-> "", enable_cache |-> FALSE]

Init ==
    /\ now = 0
    /\ ticks = 0
    /\ hashSeed \in Seeds
    /\ dirExists = FALSE
    /\ files = <<>>
    /\ diskOps = {}
    /\ engine = NoEngine
    /\ call = NoCall
    /\ apc = "idle"
    /\ idx = 0
    /\ results = <<>>
    /\ outcomes = <<>>
    /\ pass = NoPass
    /\ report = <<>>
    /\ runs = 0
    /\ calls = 0
    /\ stored = NoStore
    /\ loaded = NoLoad
    /\ keyed = NoKey
    /\ swept = NoSweep
    /\ city_var = "Vilnius"
    /\ lat_var = "54.6872"
    /\ lon_var = "25.2797"
    /\ enable_cache_var = FALSE
    /\ is_fetching = FALSE
    /\ fetch_btn = "normal"
    /\ progress = FALSE
    /\ status_var = Status("Ready to fetch weather data", "", 0)
    /\ weather_text = NoText
    /\ raw_text = <<>>
    /\ thread = NoThread
    /\ scheduled = <<>>
    /\ clicked = NoClick

----------------------------------------------------------------------------
(* Time passes and the disk changes while the engine is not running *)

(* The clock starts when the first engine is constructed; it is advanced  *)
(* only while something can still follow.                                  *)
Advance(steps) ==
    /\ apc = "idle"
    /\ runs > 0
    /\ ticks < MaxTicks
    /\ \E d \in steps : now' = now + d
    /\ ticks' = ticks + 1
    /\ UNCHANGED <<guiVars, hashSeed, diskVars, engine, runVars, runs, unitVars>>

(* between runs: long enough for the entries to go stale, or to be swept *)
Tick ==
    /\ runs < MaxRuns
    /\ Advance({cache_ttl, max_cache_age_days * 86400 + 1})

(* between direct calls: to either side of the time to live *)
TickFine ==
    /\ calls > 0
    /\ calls < MaxCalls
    /\ Advance({cache_ttl - 1, cache_ttl})

(* a cache file loses its permissions *)
Damage ==
    /\ apc = "idle"
    /\ calls < MaxCalls
    /\ Cardinality({n \in DOMAIN files : ~files[n].readable}) < MaxDamaged
    /\ \E n \in DOMAIN files :
          /\ files[n].readable
          /\ files' = [files EXCEPT ![n].readable = FALSE]
    /\ UNCHANGED <<guiVars, envVars, dirExists, diskOps, engine, runVars, runs, unitVars>>

----------------------------------------------------------------------------
(* FreeWeatherAPI.__init__ *)

(* the constructor had it make the cache directory whatever enable_cache *)
NewEngine_mkdir(loc, enable_cache, stuck) ==
    /\ engine' = [city |-> loc.city, latitude |-> loc.latitude, longitude |-> loc.longitude,
                  enable_cache |-> enable_cache, weather_api_key |-> "demo", live |-> TRUE]
    /\ dirExists' = TRUE
    /\ files' = IF enable_cache THEN _clean_old_cache(files, now, stuck) ELSE files
    /\ diskOps' = IF enable_cache THEN {"mkdir"} \cup CleanOps(files, now) ELSE {"mkdir"}
    /\ runs' = runs + 1

NewEngine(loc, enable_cache, stuck) ==
    /\ engine' = [city |-> loc.city, latitude |-> loc.latitude, longitude |-> loc.longitude,
                  enable_cache |-> enable_cache, weather_api_key |-> "demo", live |-> TRUE]
    /\ dirExists' = (dirExists \/ enable_cache)
    /\ files' = IF enable_cache THEN _clean_old_cache(files, now, stuck) ELSE files
    /\ diskOps' = IF enable_cache THEN {"mkdir"} \cup CleanOps(files, now) ELSE {}
    /\ runs' = runs + 1

----------------------------------------------------------------------------
(* get_all_weather_data, driven by the worker that constructs the engine *)

StartRun ==
    /\ apc = "idle"
    /\ runs < MaxRuns
    /\ \E loc \in Locations, enable_cache \in BOOLEAN, stuck \in SUBSET OldFiles(files, now) :
          NewEngine(loc, enable_cache, stuck)
    /\ apc' = "loop"
    /\ idx' = 1
    /\ results' = <<>>
    /\ outcomes' = <<>>
    /\ pass' = NoPass
    /\ report' = <<>>
    /\ UNCHANGED <<guiVars, envVars, unitVars>>

(* the loop had it `except (ValueError, TypeError)` *)
LoopCatches_narrow(exc) == exc \in {"ValueError", "TypeError"}

(* line 304: `except Exception` catches every exception an adapter raises *)
LoopCatches(exc) == TRUE

(* the loop had it sleep inside `if result:` *)
PacingDelay_if_result(kind) == IF kind = "ok" THEN request_delay ELSE 0

(* line 307: time.sleep(request_delay) follows the try statement: the loop *)
(* sleeps after a pass whatever the pass came to                           *)
PacingDelay(kind) == request_delay

(* lines 299-307: one pass of the loop: api_func(), what the loop does     *)
(* with its result or its exception, and the pacing sleep; an exception    *)
(* the loop does not catch leaves get_all_weather_data ("raised").  plans  *)
(* are the ways the network may answer the adapter's GETs.                 *)
AdapterPass(plans) ==
    /\ \E net \in plans :
       \E r \in {_make_request(engine, hashSeed, files, now,
                               AdapterUrl(api_functions[idx], engine),
                               AdapterParams(api_functions[idx], engine), net, "ok")} :
       \E result \in {AdapterBody(api_functions[idx], r.ret, engine)} :
          /\ files' = r.files
          /\ diskOps' = diskOps \cup r.ops
          /\ results' = IF result.kind = "ok"
                        THEN Append(results, [name |-> api_functions[idx],
                                              data |-> result.snap])
                        ELSE results
          /\ outcomes' = Append(outcomes, [name |-> api_functions[idx], data |-> r.ret,
                                           kind |-> result.kind])
          /\ pass' = [n |-> pass.n + 1, name |-> api_functions[idx],
                      gets |-> Len(SelectSeq(r.trace, LAMBDA e : e = "get")),
                      slept |-> PacingDelay(result.kind)]
          /\ IF result.kind = "raise" /\ ~LoopCatches(result.exc)
             THEN apc' = "raised" /\ idx' = idx
             ELSE IF idx < Len(api_functions)
             THEN apc' = "loop" /\ idx' = idx + 1
             ELSE apc' = "done" /\ idx' = idx
    /\ UNCHANGED <<guiVars, envVars, dirExists, engine, report, runs, unitVars>>

AdapterStep ==
    /\ apc = "loop"
    /\ AdapterPass(NetPlans(ProviderDocs(api_functions[idx])))

(* line 309 and the worker's format_weather_report(results) *)
FinishRun ==
    /\ apc = "done"
    /\ report' = format_weather_report(results, now)
    /\ apc' = "idle"
    /\ outcomes' = <<>>
    /\ pass' = NoPass
    /\ UNCHANGED <<guiVars, envVars, diskVars, engine, idx, results, runs, unitVars>>

Next ==
    \/ Tick
    \/ StartRun
    \/ AdapterStep
    \/ FinishRun

Spec == Init /\ [][Next]_vars

(* the thread that runs get_all_weather_data keeps running: a pass of the  *)
(* loop that can be made is made, and a run that returned is reported      *)
(* a pass can be made exactly while the loop is running (apc = "loop"), so  *)
(* weak fairness of the pass is written with that in place of ENABLED      *)
SpecLive ==
    /\ Init /\ [][Next]_vars
    /\ WF_vars(FinishRun)
    /\ ([]<>(apc # "loop") \/ []<><<AdapterStep>>_vars)

----------------------------------------------------------------------------
(* The engine's methods called directly, one at a time, on an engine       *)
(* constructed for the purpose                                             *)

Construct ==
    /\ apc = "idle"
    /\ runs < MaxRuns
    /\ calls < MaxCalls
    /\ \E loc \in Locations, enable_cache \in BOOLEAN, stuck \in SUBSET OldFiles(files, now) :
          NewEngine(loc, enable_cache, stuck)
    /\ UNCHANGED <<guiVars, envVars, runVars, unitVars>>

PlainUrl == <<"https", ":", "/", "/", "example.org", "/", "x">>

PlainParams == << <<"a", JNum(1)>>, <<"b", JStr("x")>> >>

Requests ==
    { [url |-> PlainUrl, params |-> NoParams],
      [url |-> PlainUrl, params |-> Params(<<>>)],
      [url |-> PlainUrl, params |-> Params(PlainParams)],
      [url |-> PlainUrl, params |-> Params(<<PlainParams[2], PlainParams[1]>>)],
      [url |-> <<>>, params |-> NoParams],
      [url |-> <<"ftp", ":", "/", "/", "example.org">>, params |-> Params(PlainParams)] }

(* the cache files of the valid requests *)
RequestFiles ==
    {_get_cache_key(hashSeed, q.url, q.params) : q \in {x \in Requests : _validate_url(x.url)}}

DirectCall ==
    /\ apc = "idle"
    /\ engine.live
    /\ calls < MaxCalls
    /\ \E q \in Requests, net \in NetPlans(PlainDocs),
          disk \in (IF engine.enable_cache THEN DiskPlans ELSE {"ok"}) :
       /\ disk # "ok" => net[Len(net)].kind = "ok"   \* a fault needs a write
       /\ \E r \in {_make_request(engine, hashSeed, files, now, q.url, q.params, net, disk)} :
             /\ files' = r.files
             /\ diskOps' = diskOps \cup r.ops
             /\ call' = [made |-> TRUE, url |-> q.url, params |-> q.params, net |-> net,
                         disk |-> disk, enable_cache |-> engine.enable_cache, at |-> now,
                         before |-> files, after |-> r.files, ret |-> r.ret,
                         trace |-> r.trace, probe |-> r.probe]
    /\ calls' = calls + 1
    /\ UNCHANGED <<guiVars, envVars, dirExists, engine, runVars, runs, stored, loaded, keyed, swept>>

DirectStore ==
    /\ apc = "idle"
    /\ engine.live
    /\ calls < MaxCalls
    /\ \E cache_file \in RequestFiles, data \in PlainDocs,
          disk \in (IF engine.enable_cache THEN DiskPlans ELSE {"ok"}) :
          /\ files' = _cache_response(files, cache_file, data, now, engine.enable_cache, disk)
          /\ diskOps' = IF engine.enable_cache THEN diskOps \cup {"write"} ELSE diskOps
          /\ stored' = [made |-> TRUE, n |-> calls + 1, file |-> cache_file, data |-> data,
                        disk |-> disk, enable_cache |-> engine.enable_cache, at |-> now,
                        writable |-> (cache_file \in DOMAIN files => files[cache_file].readable)]
    /\ calls' = calls + 1
    /\ UNCHANGED <<guiVars, envVars, dirExists, engine, runVars, runs, call, loaded, keyed, swept>>

DirectLoad ==
    /\ apc = "idle"
    /\ engine.live
    /\ calls < MaxCalls
    /\ files' = files      \* the lookup reads; it writes and unlinks nothing
    /\ \E cache_file \in RequestFiles :
          /\ loaded' = [made |-> TRUE, n |-> calls + 1, file |-> cache_file,
                        got |-> _load_cached_response(files, cache_file, now,
                                                      engine.enable_cache),
                        enable_cache |-> engine.enable_cache, at |-> now,
                        before |-> files, after |-> files']
          /\ diskOps' = diskOps \cup LoadOps(files, cache_file, now, engine.enable_cache)
    /\ calls' = calls + 1
    /\ UNCHANGED <<guiVars, envVars, dirExists, engine, runVars, runs, call, stored, keyed, swept>>

NextFetch ==
    \/ TickFine
    \/ Damage
    \/ Construct
    \/ DirectCall
    \/ DirectStore
    \/ DirectLoad

SpecFetch == Init /\ [][NextFetch]_vars

----------------------------------------------------------------------------
(* _get_cache_key on its own: any process (hash salt), URL and parameter   *)
(* dict, the dict in any insertion order                                   *)

KeyUrls == {PlainUrl, <<"https", ":", "/", "/", "wttr.in", "/", "New York">>, <<>>}

KeyPairs ==
    { <<"a", JNum(1)>>, <<"a", JNum(2)>>, <<"b", JStr("x")>>, <<"q", JStr("Vilnius")>> }

MaxParams == 3

(* the dicts of up to MaxParams items: no key twice *)
KeyDicts ==
    { items \in UNION {[1..n -> KeyPairs] : n \in 0..MaxParams} :
        \A i, j \in 1..Len(items) : i # j => items[i][1] # items[j][1] }

KeyParams == {NoParams} \cup {Params(items) : items \in KeyDicts}

KeyStep ==
    /\ apc = "idle"
    /\ \E seed \in KeySeeds, url \in KeyUrls, params \in KeyParams :
          keyed' = [made |-> TRUE, seed |-> seed, url |-> url, params |-> params,
                    key |-> _get_cache_key(seed, url, params)]
    /\ UNCHANGED <<guiVars, envVars, diskVars, engine, runVars, runs, call, calls, stored, loaded, swept>>

NextKey == KeyStep

SpecKey == Init /\ [][NextKey]_vars

----------------------------------------------------------------------------
(* The sweep of the constructor on its own: files stored at different      *)
(* times, then an engine constructed over them                             *)

(* time matters to the sweep once there is a file *)
SweepTick ==
    /\ DOMAIN files # {}
    /\ Advance({cache_ttl, max_cache_age_days * 86400, max_cache_age_days * 86400 + 1})

Sweep ==
    /\ apc = "idle"
    /\ runs < MaxRuns
    /\ \E loc \in Locations, enable_cache \in BOOLEAN, stuck \in SUBSET OldFiles(files, now) :
          /\ NewEngine(loc, enable_cache, stuck)
          /\ swept' = [made |-> TRUE, enable_cache |-> enable_cache, at |-> now,
                       stuck |-> stuck, before |-> files, after |-> files']
    /\ UNCHANGED <<guiVars, envVars, runVars, call, calls, stored, loaded, keyed>>

NextSweep ==
    \/ SweepTick
    \/ Sweep
    \/ DirectStore

SpecSweep == Init /\ [][NextSweep]_vars

----------------------------------------------------------------------------
(* WeatherAppGUI: the window, the button's handler, the worker thread and  *)
(* the callbacks it queues for the main loop                               *)

(* the fetches the window is followed through; the button may be pressed   *)
(* after them with entries that fetch_weather refuses                      *)
MaxFetches == 1

(* what the user may type into the entries *)
CityTexts == {"Vilnius", "", " "}

LatTexts == {"54.6872", "91", "abc"}

LonTexts == {"25.2797", "181", "abc"}

(* str.strip() had it leave the text alone *)
strip_none(text) == text

(* str.strip() on the texts typed *)
strip(text) == IF text = " " THEN "" ELSE text

(* float(text) on the texts typed, in whole degrees as in Locations:       *)
(* ValueError for a text that spells no number                             *)
FloatOfText(text) ==
    CASE text = "54.6872" -> Conv(54)
      [] text = "25.2797" -> Conv(25)
      [] text = "91" -> Conv(91)
      [] text = "181" -> Conv(181)
      [] OTHER -> ConvErr("ValueError")

(* the user edits an entry or ticks the checkbox; the entries stay         *)
(* editable while a fetch is under way                                     *)
EditCity ==
    /\ \E text \in CityTexts \ {city_var} : city_var' = text
    /\ UNCHANGED <<envVars, diskVars, engine, runVars, runs, unitVars, lat_var, lon_var,
                   enable_cache_var, windowVars, thread, scheduled, clicked>>

EditLat ==
    /\ \E text \in LatTexts \ {lat_var} : lat_var' = text
    /\ UNCHANGED <<envVars, diskVars, engine, runVars, runs, unitVars, city_var, lon_var,
                   enable_cache_var, windowVars, thread, scheduled, clicked>>

EditLon ==
    /\ \E text \in LonTexts \ {lon_var} : lon_var' = text
    /\ UNCHANGED <<envVars, diskVars, engine, runVars, runs, unitVars, city_var, lat_var,
                   enable_cache_var, windowVars, thread, scheduled, clicked>>

ToggleCache ==
    /\ enable_cache_var' = ~enable_cache_var
    /\ UNCHANGED <<envVars, diskVars, engine, runVars, runs, unitVars, city_var, lat_var,
                   lon_var, windowVars, thread, scheduled, clicked>>

(* fetch_weather, the command of the fetch button: a disabled button does  *)
(* not call it                                                             *)
FetchWeather ==
    /\ fetch_btn = "normal"
    /\ LET city == strip(city_var)
           lat == FloatOfText(lat_var)
           lon == FloatOfText(lon_var)
           dialog == IF is_fetching THEN ""
                     ELSE IF city = "" THEN "showwarning"
                     ELSE IF lat.exc = "ValueError" \/ lon.exc = "ValueError" THEN "showerror"
                     ELSE ""
           accepted == ~is_fetching /\ dialog = ""
       IN  /\ accepted => runs < MaxFetches
           /\ is_fetching' = (is_fetching \/ accepted)
           /\ fetch_btn' = IF accepted THEN "disabled" ELSE fetch_btn
           /\ progress' = (progress \/ accepted)
           /\ status_var' = IF accepted
                            THEN Status("Fetching weather data from APIs...", "", 0)
                            ELSE status_var
           /\ weather_text' = IF accepted THEN NoText ELSE weather_text
           /\ raw_text' = IF accepted THEN <<>> ELSE raw_text
           /\ thread' = IF accepted
                        THEN [pc |-> "start", city |-> city, lat |-> lat.n, lon |-> lon.n]
                        ELSE thread
           /\ clicked' = [n |-> (clicked.n + 1) % 2, dialog |-> dialog,
                          enable_cache |-> enable_cache_var]
    /\ UNCHANGED <<envVars, diskVars, engine, runVars, runs, unitVars, entryVars, scheduled>>

(* _fetch_weather_thread, lines 763-768: the engine is constructed from    *)
(* the thread's arguments and the checkbox as it is now                    *)
WorkerConstruct ==
    /\ thread.pc = "start"
    /\ \E stuck \in SUBSET OldFiles(files, now) :
          NewEngine([city |-> thread.city, latitude |-> thread.lat, longitude |-> thread.lon],
                    enable_cache_var, stuck)
    /\ thread' = [thread EXCEPT !.pc = "run"]
    /\ apc' = "loop"
    /\ idx' = 1
    /\ results' = <<>>
    /\ outcomes' = <<>>
    /\ pass' = NoPass
    /\ report' = <<>>
    /\ UNCHANGED <<envVars, unitVars, entryVars, windowVars, scheduled, clicked>>

(* the constructor raises: .weather_cache is wanted and cannot be made;    *)
(* the thread queues _handle_error, then _fetch_complete, and ends         *)
WorkerConstructFails ==
    /\ thread.pc = "start"
    /\ enable_cache_var /\ ~dirExists
    /\ scheduled' = scheduled \o << [f |-> "_handle_error", results |-> <<>>, report |-> <<>>,
                                     city |-> "", msg |-> "OSError"],
                                    [f |-> "_fetch_complete", results |-> <<>>, report |-> <<>>,
                                     city |-> "", msg |-> ""] >>
    /\ thread' = NoThread
    /\ UNCHANGED <<envVars, diskVars, engine, runVars, runs, unitVars, entryVars, windowVars,
                   clicked>>

(* the providers as the window's runs meet them: every GET of a request    *)
(* times out, or the first brings a document the adapter accepts           *)
WorkerPlans(name) ==
    {Timeouts(retry_attempts)}
        \cup {<<Ok(Dumps(d))>> : d \in {x \in ProviderDocs(name) :
                                          AdapterBody(name, x, engine).kind = "ok"}}

(* line 770: one pass of the loop of get_all_weather_data *)
WorkerPass ==
    /\ thread.pc = "run"
    /\ apc = "loop"
    /\ AdapterPass(WorkerPlans(api_functions[idx]))

(* the thread had it call _fetch_complete itself in its finally clause     *)
WorkerReturn_direct ==
    /\ thread.pc = "run"
    /\ apc \in {"done", "raised"}
    /\ report' = IF apc = "done" THEN format_weather_report(results, now) ELSE report
    /\ scheduled' = scheduled \o
          << IF apc = "done"
             THEN [f |-> "_update_display", results |-> results, report |-> report',
                   city |-> thread.city, msg |-> ""]
             ELSE [f |-> "_handle_error", results |-> <<>>, report |-> <<>>,
                   city |-> "", msg |-> "Exception"] >>
    /\ is_fetching' = FALSE
    /\ fetch_btn' = "normal"
    /\ progress' = FALSE
    /\ thread' = NoThread
    /\ apc' = "idle"
    /\ outcomes' = <<>>
    /\ pass' = NoPass
    /\ UNCHANGED <<envVars, diskVars, engine, idx, results, runs, unitVars, entryVars,
                   status_var, weather_text, raw_text, clicked>>

(* the thread had it queue _fetch_complete before the outcome *)
WorkerReturn_complete_first ==
    /\ thread.pc = "run"
    /\ apc \in {"done", "raised"}
    /\ report' = IF apc = "done" THEN format_weather_report(results, now) ELSE report
    /\ scheduled' = scheduled \o
          << [f |-> "_fetch_complete", results |-> <<>>, report |-> <<>>,
              city |-> "", msg |-> ""],
             IF apc = "done"
             THEN [f |-> "_update_display", results |-> results, report |-> report',
                   city |-> thread.city, msg |-> ""]
             ELSE [f |-> "_handle_error", results |-> <<>>, report |-> <<>>,
                   city |-> "", msg |-> "Exception"] >>
    /\ thread' = NoThread
    /\ apc' = "idle"
    /\ outcomes' = <<>>
    /\ pass' = NoPass
    /\ UNCHANGED <<envVars, diskVars, engine, idx, results, runs, unitVars, entryVars,
                   windowVars, clicked>>

(* lines 771-778: the report is made, _update_display is queued (or        *)
(* _handle_error, had the run raised), then _fetch_complete                *)
WorkerReturn ==
    /\ thread.pc = "run"
    /\ apc \in {"done", "raised"}
    /\ report' = IF apc = "done" THEN format_weather_report(results, now) ELSE report
    /\ scheduled' = scheduled \o
          << IF apc = "done"
             THEN [f |-> "_update_display", results |-> results, report |-> report',
                   city |-> thread.city, msg |-> ""]
             ELSE [f |-> "_handle_error", results |-> <<>>, report |-> <<>>,
                   city |-> "", msg |-> "Exception"],
             [f |-> "_fetch_complete", results |-> <<>>, report |-> <<>>,
              city |-> "", msg |-> ""] >>
    /\ thread' = NoThread
    /\ apc' = "idle"
    /\ outcomes' = <<>>
    /\ pass' = NoPass
    /\ UNCHANGED <<envVars, diskVars, engine, idx, results, runs, unitVars, entryVars,
                   windowVars, clicked>>

(* the main loop runs the oldest queued callback *)
UpdateDisplay ==
    /\ scheduled # <<>>
    /\ Head(scheduled).f = "_update_display"
    /\ LET cb == Head(scheduled)
       IN  /\ weather_text' = IF Len(cb.results) > 0
                              THEN Shown("results", cb.city, Len(cb.results))
                              ELSE Shown("nodata", "", 0)
           /\ status_var' = IF Len(cb.results) > 0
                            THEN Status("Successfully fetched data", cb.city, Len(cb.results))
                            ELSE Status("Failed to fetch weather data", "", 0)
           /\ raw_text' = cb.report
    /\ scheduled' = Tail(scheduled)
    /\ UNCHANGED <<envVars, diskVars, engine, runVars, runs, unitVars, entryVars,
                   is_fetching, fetch_btn, progress, thread, clicked>>

HandleError ==
    /\ scheduled # <<>>
    /\ Head(scheduled).f = "_handle_error"
    /\ weather_text' = Shown("error", Head(scheduled).msg, 0)
    /\ status_var' = Status("Error", Head(scheduled).msg, 0)
    /\ scheduled' = Tail(scheduled)
    /\ UNCHANGED <<envVars, diskVars, engine, runVars, runs, unitVars, entryVars,
                   is_fetching, fetch_btn, progress, raw_text, thread, clicked>>

FetchComplete ==
    /\ scheduled # <<>>
    /\ Head(scheduled).f = "_fetch_complete"
    /\ is_fetching' = FALSE
    /\ fetch_btn' = "normal"
    /\ progress' = FALSE
    /\ scheduled' = Tail(scheduled)
    /\ UNCHANGED <<envVars, diskVars, engine, runVars, runs, unitVars, entryVars,
                   status_var, weather_text, raw_text, thread, clicked>>

NextGui ==
    \/ EditCity
    \/ EditLat
    \/ EditLon
    \/ ToggleCache
    \/ FetchWeather
    \/ WorkerConstruct
    \/ WorkerConstructFails
    \/ WorkerPass
    \/ WorkerReturn
    \/ UpdateDisplay
    \/ HandleError
    \/ FetchComplete

SpecGui == Init /\ [][NextGui]_vars

(* the worker thread keeps running once started and the main loop runs the *)
(* callbacks queued for it; the user is under no obligation.  A pass of    *)
(* the loop can be made exactly while the thread is in the loop, so its    *)
(* weak fairness is written with that in place of ENABLED                  *)
SpecGuiLive ==
    /\ Init /\ [][NextGui]_vars
    /\ WF_vars(WorkerConstruct \/ WorkerConstructFails)
    /\ ([]<>(~(thread.pc = "run" /\ apc = "loop")) \/ []<><<WorkerPass>>_vars)
    /\ WF_vars(WorkerReturn)
    /\ WF_vars(UpdateDisplay)
    /\ WF_vars(HandleError)
    /\ WF_vars(FetchComplete)

----------------------------------------------------------------------------
(* One run of get_all_weather_data over documents that differ in their     *)
(* temperatures, wind speeds and weather codes                             *)

MaxDataRuns == 1

OpenMeteoCurrent(temperature, members) ==
    JObj(<<JKv("current", JObj(<<JKv("temperature_2m", JNum(temperature))>> \o members))>>)

(* an answer of Open-Meteo with a wind speed, and the unit the answer      *)
(* names for it in its current_units block                                 *)
OpenMeteoWind(speed, unit) ==
    JObj(<<JKv("current_units", JObj(<<JKv("wind_speed_10m", JStr(unit))>>)),
           JKv("current", JObj(<<JKv("temperature_2m", JNum(10)),
                                 JKv("weather_code", JNum(3)),
                                 JKv("wind_speed_10m", JNum(speed))>>))>>)

DataDocs(name) ==
    CASE name = "Open-Meteo" ->
            { OpenMeteoWind(36, "km/h"),
              OpenMeteoWind(36, "m/s"),
              OpenMeteoCurrent(11, <<JKv("weather_code", JNum(4))>>),
              OpenMeteoCurrent(10, <<JKv("weather_code", JNum(99))>>),
              OpenMeteoCurrent(-4, <<JKv("weather_code", JStr("3"))>>),
              OpenMeteoCurrent(10, <<JKv("weather_code", JNull)>>),
              OpenMeteoCurrent(10, <<JKv("weather_code", JArr(<<JNum(3)>>))>>),
              OpenMeteoCurrent(10, <<>>) }
      [] name = "WeatherAPI" ->
            { JObj(<<JKv("current", JObj(<<JKv("temp_c", JNum(20)),
                                           JKv("wind_kph", JNum(36))>>))>>),
              JObj(<<JKv("current", JObj(<<JKv("temp_c", JNum(-4)),
                                           JKv("wind_kph", JNum(5))>>))>>),
              JObj(<<JKv("current", JObj(<<JKv("temp_c", JNum(20))>>))>>) }
      [] OTHER ->
            { JObj(<<JKv("current_condition",
                         JArr(<<JObj(<<JKv("temp_C", JStr("12")),
                                       JKv("windspeedKmph", JStr("36"))>>)>>))>>),
              JObj(<<JKv("current_condition",
                         JArr(<<JObj(<<JKv("temp_C", JStr("5")),
                                       JKv("windspeedKmph", JStr("80"))>>)>>))>>) }

(* every GET of a request times out, or the first brings a document *)
DataPlans(name) ==
    {Timeouts(retry_attempts)} \cup {<<Ok(Dumps(d))>> : d \in DataDocs(name)}

StartDataRun ==
    /\ runs < MaxDataRuns
    /\ StartRun

DataPass ==
    /\ apc = "loop"
    /\ AdapterPass(DataPlans(api_functions[idx]))

NextData ==
    \/ StartDataRun
    \/ DataPass
    \/ FinishRun

SpecData == Init /\ [][NextData]_vars

----------------------------------------------------------------------------
(* Runs one after the other in one process, over 200 answers whose         *)
(* documents every adapter rejects                                         *)

RerunDocs == {JObj(<<>>), JObj(<<JKv("latitude", JNum(54))>>)}

RerunPlans == {Timeouts(retry_attempts)} \cup {<<Ok(Dumps(d))>> : d \in RerunDocs}

(* between two runs: to either side of the time to live *)
RerunTick ==
    /\ runs < MaxRuns
    /\ Advance({cache_ttl - 1, cache_ttl})

RerunPass ==
    /\ apc = "loop"
    /\ AdapterPass(RerunPlans)

NextRerun ==
    \/ RerunTick
    \/ StartRun
    \/ RerunPass
    \/ FinishRun

SpecRerun == Init /\ [][NextRerun]_vars

----------------------------------------------------------------------------
(* Properties of a run of get_all_weather_data (specification Spec)        *)

ResultKeys == {results[i].name : i \in 1..Len(results)}

Succeeded == {outcomes[i].name : i \in {j \in 1..Len(outcomes) : outcomes[j].kind = "ok"}}

CountLine(n) == Line("Successful sources", n, "")

(* C1, as stated: whatever subset S of the providers succeeds, the report  *)
(* of the run prints "Successful sources: n" with n = |S|, the number of   *)
(* entries of the mapping returned.                                        *)
C1_CountLineAlways ==
    (apc = "idle" /\ report # <<>>) =>
        \E i \in 1..Len(report) : report[i] = CountLine(Len(results))

(* C1, amended: when get_all_weather_data returns, the keys of the mapping *)
(* are exactly the providers whose adapter returned a snapshot, each key   *)
(* once and each entry's 'source' equal to its key; and the report ends    *)
(* with "Successful sources: n", n the number of entries, when there is at *)
(* least one entry; with none the report is the one no-data line.          *)
C1_ExactlyTheSuccessful ==
    /\ apc = "done" =>
          /\ ResultKeys = Succeeded
          /\ Cardinality(ResultKeys) = Len(results)
          /\ \A i \in 1..Len(results) : results[i].data.source = results[i].name
    /\ (apc = "idle" /\ report # <<>>) =>
          IF Len(results) > 0
          THEN /\ report[Len(report)] = CountLine(Len(results))
               /\ \A i \in 1..(Len(report) - 1) : report[i].k # "Successful sources"
          ELSE report = << Line("No weather data could be retrieved from any source.", 0, "") >>

(* a run in which exactly two of the three providers succeeded was reported *)
C1_Witness ==
    /\ apc = "idle"
    /\ Len(results) = 2
    /\ ResultKeys = {"Open-Meteo", "WeatherAPI"}
    /\ report # <<>>
    /\ report[Len(report)] = CountLine(2)

(* C4: get_all_weather_data never raises because of an adapter: when an    *)
(* adapter returned None or raised, its source is not in the mapping, the  *)
(* adapters after it are called all the same (all three, in order, by the  *)
(* time the mapping is returned), and the call never ends in an exception. *)
C4_AdapterFailuresContained ==
    /\ apc # "raised"
    /\ \A i \in 1..Len(outcomes) :
          /\ outcomes[i].name = api_functions[i]
          /\ outcomes[i].kind \in {"none", "raise"} => outcomes[i].name \notin ResultKeys
    /\ apc = "loop" => Len(outcomes) = idx - 1
    /\ apc = "done" => Len(outcomes) = Len(api_functions)

(* a run returned although the first adapter raised and the second         *)
(* returned None; the third, called all the same, is in the mapping        *)
C4_Witness ==
    /\ apc = "done"
    /\ outcomes[1].kind = "raise"
    /\ outcomes[2].kind = "none"
    /\ outcomes[3].kind = "ok"
    /\ ResultKeys = {"WeatherAPI"}

(* the document lacks the adapter's current-conditions block, or the block *)
(* lacks the temperature field                                             *)
LacksCurrent(name, data) ==
    /\ data.t = "obj"
    /\ IF name = "wttr.in"
       THEN \/ ~HasKey(data, "current_condition")
            \/ /\ GetKey(data, "current_condition").t = "arr"
               /\ \/ Len(GetKey(data, "current_condition").kids) = 0
                  \/ /\ GetKey(data, "current_condition").kids[1].t = "obj"
                     /\ ~HasKey(GetKey(data, "current_condition").kids[1], "temp_C")
       ELSE \/ ~HasKey(data, "current")
            \/ /\ GetKey(data, "current").t = "obj"
               /\ ~HasKey(GetKey(data, "current"),
                          IF name = "Open-Meteo" THEN "temperature_2m" ELSE "temp_c")

(* C5: an adapter whose fetched document lacks its current-conditions      *)
(* block (or has an empty current_condition array, for wttr.in) or lacks   *)
(* the temperature field returns None, and nothing of that source is in    *)
(* the mapping; and whether any other adapter's snapshot is in the mapping *)
(* is decided by that adapter's own document alone.                        *)
C5_MissingBlockFailsAlone ==
    \A i \in 1..Len(outcomes) :
        /\ LacksCurrent(outcomes[i].name, outcomes[i].data) =>
              /\ outcomes[i].kind = "none"
              /\ outcomes[i].name \notin ResultKeys
        /\ outcomes[i].name \in ResultKeys <=>
              AdapterBody(outcomes[i].name, outcomes[i].data, engine).kind = "ok"

(* Open-Meteo's document had no `current`, wttr.in's an empty              *)
(* current_condition; WeatherAPI's snapshot is in the mapping              *)
C5_Witness ==
    /\ apc = "done"
    /\ outcomes[1].data.t = "obj" /\ ~HasKey(outcomes[1].data, "current")
    /\ outcomes[2].data.t = "obj" /\ HasKey(outcomes[2].data, "current_condition")
    /\ Len(GetKey(outcomes[2].data, "current_condition").kids) = 0
    /\ ResultKeys = {"WeatherAPI"}

----------------------------------------------------------------------------
(* Properties of _make_request and of the cache methods, called directly   *)
(* (specification SpecFetch)                                               *)

Gets(trace) == Len(SelectSeq(trace, LAMBDA e : e = "get"))

NetEvents(trace) == SelectSeq(trace, LAMBDA e : e \in {"get", "sleep"})

(* C2: a call of _make_request that issues GETs issues at most two; when   *)
(* the first times out and the second succeeds the call returns the second *)
(* response's payload; when they all time out it returns None (failure)    *)
(* after exactly 2 GETs; and a 1-second sleep happens only between two     *)
(* GETs.                                                                   *)
C2_RetryOnTimeout ==
    (call.made /\ Gets(call.trace) > 0) =>
        /\ Gets(call.trace) <= 2
        /\ (/\ Len(call.net) = 2
            /\ call.net[1] = Timeout
            /\ call.net[2].kind = "ok"
            /\ Loads(call.net[2].body).ok) =>
              /\ call.ret = Loads(call.net[2].body).v
              /\ NetEvents(call.trace) = <<"get", "sleep", "get">>
        /\ (\A i \in 1..2 : Answer(call.net, i) = Timeout) =>
              /\ call.ret = JNull
              /\ NetEvents(call.trace) = <<"get", "sleep", "get">>
        /\ \A i \in 1..Len(call.trace) :
              call.trace[i] = "sleep" =>
                  /\ i > 1 /\ call.trace[i - 1] = "get"
                  /\ i < Len(call.trace) /\ call.trace[i + 1] = "get"

(* a call returned the payload of its second GET, the first having timed out *)
C2_Witness ==
    /\ call.made
    /\ Len(call.net) = 2
    /\ call.net[1] = Timeout
    /\ call.ret = JObj(<<JKv("a", JNum(1))>>)
    /\ NetEvents(call.trace) = <<"get", "sleep", "get">>

(* a GET that ended in a transport error other than a timeout, in a status *)
(* that is not 2xx, or in a body that is not JSON                          *)
FailedGet(a) == a.kind \in {"connerr", "http"} \/ (a.kind = "ok" /\ ~Loads(a.body).ok)

(* C3: a call of _make_request one of whose GETs ends in a non-timeout     *)
(* transport error, a non-2xx status or an undecodable body returns None   *)
(* at once: that GET, the first or the second, is the call's last event,   *)
(* and the call writes no cache entry: the cache files are as before it.   *)
C3_FailsWithoutRetry ==
    (call.made /\ Gets(call.trace) > 0 /\ FailedGet(call.net[Len(call.net)])) =>
        /\ call.ret = JNull
        /\ Gets(call.trace) = Len(call.net)
        /\ call.trace[Len(call.trace)] = "get"
        /\ \A i \in 1..Len(call.trace) : call.trace[i] # "write"
        /\ call.after = call.before

(* a call with the cache enabled failed on the HTTP status of its second GET *)
C3_Witness ==
    /\ call.made
    /\ call.enable_cache
    /\ call.net = <<Timeout, HTTPError>>
    /\ Gets(call.trace) = 2
    /\ call.ret = JNull

(* the cache file the lookup found is readable, younger than the time to   *)
(* live, and holds a JSON document                                         *)
FreshEntry(probe) ==
    /\ probe.looked /\ probe.exists /\ probe.readable
    /\ probe.age < cache_ttl
    /\ Loads(probe.text).ok

(* C6, as stated: with the cache enabled, a call of _make_request that     *)
(* finds a readable entry younger than the time to live under the          *)
(* request's key returns the document of that entry and issues no GET,     *)
(* whatever JSON document the entry holds.                                 *)
C6_FreshEntryServed ==
    (call.made /\ call.enable_cache /\ FreshEntry(call.probe)) =>
        /\ call.ret = Loads(call.probe.text).v
        /\ Gets(call.trace) = 0

(* C7: with the cache enabled, _load_cached_response right after a         *)
(* _cache_response that wrote the same file returns the document stored    *)
(* while the file is younger than cache_ttl; from age cache_ttl on it      *)
(* returns None, and the file is on disk after the lookup as it was before *)
(* it.                                                                     *)
C7_RoundTripBelowTtl ==
    (/\ stored.made /\ loaded.made
     /\ loaded.n = stored.n + 1
     /\ stored.enable_cache /\ loaded.enable_cache
     /\ loaded.file = stored.file
     /\ stored.disk = "ok" /\ stored.writable
     /\ loaded.file \in DOMAIN loaded.before
     /\ loaded.before[loaded.file].readable) =>
        IF loaded.at - stored.at < cache_ttl
        THEN loaded.got = stored.data
        ELSE /\ loaded.got = JNull
             /\ loaded.file \in DOMAIN loaded.after
             /\ loaded.after[loaded.file] = loaded.before[loaded.file]

(* a document was stored and read back one second before it went stale *)
C7_Witness ==
    /\ stored.made /\ loaded.made
    /\ loaded.n = stored.n + 1
    /\ stored.enable_cache /\ loaded.enable_cache
    /\ loaded.file = stored.file
    /\ loaded.at - stored.at = cache_ttl - 1
    /\ Truthy(stored.data)
    /\ loaded.got = stored.data

(* C8: the cache key of a request does not depend on the order in which    *)
(* the parameters were inserted in the dict: every dict with the same      *)
(* items gets the key the call computed (within one process, i.e. one hash *)
(* salt); and with params absent or empty the key is made of the URL       *)
(* alone: "cache_", the quoted URL, ".json".                               *)
SameItems(p, q) == p.given /\ q.given /\ FrozenSet(p.items) = FrozenSet(q.items)

C8_KeyOrderIndependent ==
    keyed.made =>
        /\ \A p \in KeyParams :
              SameItems(p, keyed.params) =>
                  _get_cache_key(keyed.seed, keyed.url, p) = keyed.key
        /\ (~keyed.params.given \/ keyed.params.items = <<>>) =>
              keyed.key = <<StrTok("cache_")>>
                          \o [i \in 1..Len(keyed.url) |-> StrTok(Quote(keyed.url, {})[i])]
                          \o <<StrTok(".json")>>

(* a key was computed for three parameters inserted out of sorted order *)
C8_Witness ==
    /\ keyed.made
    /\ Len(keyed.params.items) = 3
    /\ keyed.params.items[1][1] = "q"
    /\ keyed.params.items[3][1] = "a"
    /\ keyed.url # <<>>

(* C9: with enable_cache false, no step of the engine touches the disk:    *)
(* constructing it, _make_request, _cache_response and                     *)
(* _load_cached_response leave the cache directory and every cache file as *)
(* they were, perform no disk operation, every lookup returns None and     *)
(* _make_request neither looks an entry up nor writes one.                 *)
C9_DisabledCacheTouchesNothing ==
    [][ (engine'.live /\ ~engine'.enable_cache /\ (calls' # calls \/ runs' # runs)) =>
            /\ files' = files
            /\ dirExists' = dirExists
            /\ diskOps' = {}
            /\ loaded' # loaded => loaded'.got = JNull
            /\ call' # call =>
                  /\ call'.probe = NoProbe
                  /\ call'.after = call'.before
                  /\ \A i \in 1..Len(call'.trace) : call'.trace[i] \in {"get", "sleep"}
      ]_vars

(* an engine with the cache disabled looked up a file that is on disk,     *)
(* readable, fresh and holds a document, and got None                      *)
C9_Witness ==
    /\ engine.live /\ ~engine.enable_cache
    /\ loaded.made /\ ~loaded.enable_cache
    /\ loaded.file \in DOMAIN files
    /\ files[loaded.file].readable
    /\ loaded.at - files[loaded.file].mtime < cache_ttl
    /\ Loads(files[loaded.file].text).ok
    /\ Truthy(Loads(files[loaded.file].text).v)
    /\ loaded.got = JNull

(* the same call on the same files and network, by an engine without cache *)
Uncached(c) ==
    _make_request([engine EXCEPT !.enable_cache = FALSE], hashSeed, c.before, now,
                  c.url, c.params, c.net, c.disk)

(* C10, as stated: for the same request and the same behaviour of the      *)
(* network, _make_request returns the same payload, or the same failure,   *)
(* with the cache enabled as with the cache disabled.                      *)
C10_SameOutcomeAlways ==
    call.made => call.ret = Uncached(call).ret

(* C10, amended: for the same request and the same behaviour of the        *)
(* network, _make_request returns the same payload or failure, after the   *)
(* same GETs, with the cache enabled as with it disabled, whenever the     *)
(* lookup finds no readable entry younger than the time to live.           *)
C10_SameOutcomeOnMiss ==
    (call.made /\ ~FreshEntry(call.probe)) =>
        /\ call.ret = Uncached(call).ret
        /\ NetEvents(call.trace) = NetEvents(Uncached(call).trace)

(* a call with the cache enabled found a stale entry holding a document,   *)
(* went to the network and failed as the call without cache does           *)
C10_Witness ==
    /\ call.made /\ call.enable_cache
    /\ call.probe.exists /\ call.probe.readable
    /\ call.probe.age >= cache_ttl
    /\ Truthy(Loads(call.probe.text).v)
    /\ call.net = <<ConnectionError>>
    /\ call.ret = JNull

(* the names under which two states of the cache directory differ *)
Changed(before, after) ==
    {n \in DOMAIN before \cup DOMAIN after :
        \/ n \notin DOMAIN before
        \/ n \notin DOMAIN after
        \/ before[n] # after[n]}

(* the call's last GET was answered 2xx with a JSON body *)
GetSucceeded(c) ==
    /\ Gets(c.trace) > 0
    /\ Answer(c.net, Gets(c.trace)).kind = "ok"
    /\ Loads(Answer(c.net, Gets(c.trace)).body).ok

(* C11: with the cache enabled, a call of _make_request whose GET succeeds *)
(* returns the decoded document and stores it, as json.dumps writes it,    *)
(* in the file of the request's key (when the disk takes the write); a     *)
(* call changes no file but that one, stores at most once and only right   *)
(* after the successful GET, as its last event; a call that timed out or   *)
(* failed leaves the files as they were.                                   *)
C11_WritesOnlyOnSuccess ==
    (call.made /\ call.enable_cache) =>
        LET key == _get_cache_key(hashSeed, call.url, call.params)
            writes == {i \in 1..Len(call.trace) : call.trace[i] = "write"}
        IN  /\ Changed(call.before, call.after) \subseteq {key}
            /\ Cardinality(writes) <= 1
            /\ \A i \in writes : i = Len(call.trace) /\ i > 1 /\ call.trace[i - 1] = "get"
            /\ IF GetSucceeded(call)
               THEN /\ call.ret = Loads(Answer(call.net, Gets(call.trace)).body).v
                    /\ writes # {}
                    /\ (/\ call.disk = "ok"
                        /\ key \in DOMAIN call.before => call.before[key].readable) =>
                          /\ key \in DOMAIN call.after
                          /\ call.after[key] = [text |-> Dumps(call.ret), mtime |-> call.at,
                                                readable |-> TRUE]
               ELSE /\ writes = {}
                    /\ call.after = call.before

(* a call with parameters fetched a document on its second GET and stored  *)
(* it in a directory that held another request's file already              *)
C11_Witness ==
    /\ call.made /\ call.enable_cache
    /\ call.params.given /\ Len(call.params.items) = 2
    /\ call.net[1] = Timeout
    /\ call.trace = <<"lookup", "get", "sleep", "get", "write">>
    /\ Cardinality(DOMAIN call.before) = 1
    /\ Cardinality(DOMAIN call.after) = 2
    /\ Truthy(call.ret)

(* C13: a call of _make_request with a URL that is empty or starts with    *)
(* neither http:// nor https:// returns None and does nothing: no cache    *)
(* lookup, no GET, no sleep, no write, the files as before, with the cache *)
(* enabled and with it disabled.                                           *)
C13_BadUrlDoesNothing ==
    (/\ call.made
     /\ \/ call.url = <<>>
        \/ Len(call.url) < 4
        \/ <<call.url[1], call.url[2], call.url[3], call.url[4]>>
               \notin {<<"http", ":", "/", "/">>, <<"https", ":", "/", "/">>}) =>
        /\ call.ret = JNull
        /\ call.trace = <<>>
        /\ call.probe = NoProbe
        /\ call.after = call.before

(* an engine with the cache enabled and a file on disk was given an ftp    *)
(* URL while the network would have answered with a document               *)
C13_Witness ==
    /\ call.made /\ call.enable_cache
    /\ call.url # <<>> /\ call.url[1] = "ftp"
    /\ call.net = <<Ok(Dumps(JObj(<<JKv("a", JNum(1))>>)))>>
    /\ DOMAIN call.before # {}
    /\ call.ret = JNull

C12_SweepRemovesOnlyOld ==
    (swept.made /\ swept.enable_cache) =>
        /\ engine.live
        /\ \A n \in DOMAIN swept.before :
              IF swept.before[n].mtime < swept.at - 7 * 86400
              THEN n \notin swept.stuck => n \notin DOMAIN swept.after
              ELSE n \in DOMAIN swept.after /\ swept.after[n] = swept.before[n]
        /\ DOMAIN swept.after \subseteq DOMAIN swept.before

(* two files were older than 7 days; one could not be unlinked and stayed, *)
(* the other was removed                                                   *)
C12_Witness ==
    /\ swept.made /\ swept.enable_cache
    /\ Cardinality(DOMAIN swept.before) = 2
    /\ Cardinality(swept.stuck) = 1
    /\ DOMAIN swept.after = swept.stuck
    /\ \A n \in DOMAIN swept.before : swept.before[n].mtime < swept.at - 7 * 86400

(* C17: within a run the adapters are invoked one per pass of the loop, in *)
(* the order Open-Meteo, wttr.in, WeatherAPI, each once, a pass starting   *)
(* only when the pass before it is over; and after every pass, whether the *)
(* adapter returned a snapshot, returned None or raised, the loop has      *)
(* slept request_delay before the next pass.                               *)
C17_SequentialAndPaced ==
    /\ Len(outcomes) <= 3
    /\ \A i \in 1..Len(outcomes) :
          outcomes[i].name = <<"Open-Meteo", "wttr.in", "WeatherAPI">>[i]
    /\ pass.n = Len(outcomes)
    /\ apc = "loop" => idx = pass.n + 1
    /\ apc = "done" => pass.n = 3
    /\ pass.n > 0 =>
          /\ pass.name = outcomes[pass.n].name
          /\ pass.slept = request_delay

(* the loop is about to invoke WeatherAPI, having slept after a wttr.in    *)
(* pass that returned None, which followed an Open-Meteo pass that raised  *)
C17_Witness ==
    /\ apc = "loop" /\ idx = 3
    /\ outcomes[1].kind = "raise"
    /\ outcomes[2].kind = "none"
    /\ pass.name = "wttr.in"
    /\ pass.slept = request_delay

(* C18: every run of get_all_weather_data that is started returns (each    *)
(* GET either answering or timing out), after exactly three passes of the  *)
(* loop, none of which issued more than 2 GETs.                            *)
C18_RunTerminates ==
    /\ [](/\ pass.n <= 3
          /\ pass.gets <= 2
          /\ apc = "done" => pass.n = 3)
    /\ (apc = "loop") ~> (apc = "done")

(* a run returned whose last adapter had both its GETs time out *)
C18_Witness ==
    /\ apc = "done"
    /\ pass.n = 3
    /\ pass.gets = 2
    /\ outcomes[3].data = JNull

(* a 200 document of WeatherAPI whose snapshot would have no description:  *)
(* a temperature, and a condition whose text is null                       *)
NullConditionText(data) ==
    /\ data.t = "obj" /\ HasKey(data, "current")
    /\ GetKey(data, "current").t = "obj"
    /\ DictGet(GetKey(data, "current"), "temp_c", JNull).t = "num"
    /\ DictGet(GetKey(data, "current"), "condition", JNull).t = "obj"
    /\ HasKey(DictGet(GetKey(data, "current"), "condition", JNull), "text")
    /\ DictGet(DictGet(GetKey(data, "current"), "condition", JNull), "text", JStr("")).t = "null"

(* C16: every snapshot in the mapping of a run has a temperature that is a *)
(* number, a description that is not None, the source it is stored under   *)
(* and the city of the engine; and an adapter given a 200 document whose   *)
(* snapshot would lack one of them (a null condition text) returns None,   *)
(* so that its source is not in the mapping.                               *)
C16_SnapshotsValidated ==
    /\ \A i \in 1..Len(results) :
          /\ results[i].data.temperature \in Int
          /\ results[i].data.description.t # "null"
          /\ results[i].data.source = results[i].name
          /\ results[i].data.city = engine.city
    /\ \A i \in 1..Len(outcomes) :
          (outcomes[i].name = "WeatherAPI" /\ NullConditionText(outcomes[i].data)) =>
              /\ outcomes[i].kind = "none"
              /\ "WeatherAPI" \notin ResultKeys

(* a run returned in which WeatherAPI answered 200 with a null condition   *)
(* text and is not in the mapping, the two other sources being in it       *)
C16_Witness ==
    /\ apc = "done"
    /\ NullConditionText(outcomes[3].data)
    /\ outcomes[3].kind = "none"
    /\ ResultKeys = {"Open-Meteo", "wttr.in"}

(* C20: the report of an empty mapping is exactly the one no-data line,    *)
(* with no "Average Temperature" and no "Successful sources" line; the     *)
(* report of a mapping with entries has one line of each.                  *)
C20_EmptyAndNonEmptyReports ==
    (apc = "idle" /\ report # <<>>) =>
        LET averages == {i \in 1..Len(report) : report[i].k = "Average Temperature"}
            counts == {i \in 1..Len(report) : report[i].k = "Successful sources"}
        IN  IF Len(results) = 0
            THEN /\ report = << Line("No weather data could be retrieved from any source.", 0, "") >>
                 /\ averages = {} /\ counts = {}
            ELSE /\ Cardinality(averages) = 1
                 /\ Cardinality(counts) = 1

(* a run with one source in its mapping was reported *)
C20_Witness ==
    /\ apc = "idle"
    /\ Len(results) = 1
    /\ \E i \in 1..Len(report) : report[i].k = "Average Temperature"

----------------------------------------------------------------------------
(* Properties of the window (specification SpecGui)                        *)

(* C14: a call of fetch_weather that finds the city entry empty or blank,  *)
(* or a latitude or longitude entry that spells no number, shows an        *)
(* "Input Error" box and changes nothing else: no thread is started, no    *)
(* engine constructed, no file touched and no callback queued,             *)
(* is_fetching stays false, and the two text widgets show what they showed.*)
C14_BadInputStartsNothing ==
    [][(/\ clicked'.n # clicked.n
        /\ (city_var \in {"", " "} \/ lat_var = "abc" \/ lon_var = "abc"))
       => /\ clicked'.dialog \in {"showwarning", "showerror"}
          /\ ~is_fetching /\ ~is_fetching'
          /\ thread = NoThread /\ thread' = NoThread
          /\ UNCHANGED <<engine, runs, runVars, diskVars, scheduled, weather_text, raw_text,
                         fetch_btn>>]_vars

(* the button was pressed with a blank city while the window showed the    *)
(* results of a run: a warning, and the results still there                *)
C14_Witness ==
    /\ clicked.dialog = "showwarning"
    /\ city_var = " "
    /\ weather_text.kind = "results"
    /\ raw_text # <<>>
    /\ thread = NoThread

(* C15, as stated: every run that is started, from the thread's arguments  *)
(* to the engine the adapters read, has a latitude within [-90, 90] and a  *)
(* longitude within [-180, 180].                                           *)
C15_CoordinatesInRange ==
    /\ thread.pc # "none" => (thread.lat \in -90..90 /\ thread.lon \in -180..180)
    /\ engine.live => (engine.latitude \in -90..90 /\ engine.longitude \in -180..180)

----------------------------------------------------------------------------
(* Properties of the snapshots and of the report (specification SpecData)  *)

RECURSIVE TemperatureSum(_)
TemperatureSum(k) ==
    IF k = 0 THEN 0 ELSE results[k].data.temperature + TemperatureSum(k - 1)

Abs(x) == IF x < 0 THEN -x ELSE x

Averages == {i \in 1..Len(report) : report[i].k = "Average Temperature"}

(* C21: the report of a mapping with entries has one "Average Temperature" *)
(* line, which shows, in tenths, the tenth nearest to the sum of all the   *)
(* entries' temperatures divided by their number; for two sources at 10    *)
(* and 20 degrees it shows 15.0.                                           *)
C21_AverageIsMean ==
    (apc = "idle" /\ Len(results) > 0) =>
        /\ Cardinality(Averages) = 1
        /\ \A i \in Averages :
              /\ 2 * Abs(report[i].n * Len(results) - 10 * TemperatureSum(Len(results)))
                    <= Len(results)
              /\ (/\ Len(results) = 2
                  /\ {results[1].data.temperature, results[2].data.temperature} = {10, 20})
                    => report[i].n = 150

(* a run whose two sources were at 10 and 20 degrees was reported *)
C21_Witness ==
    /\ apc = "idle"
    /\ Len(results) = 2
    /\ results[1].data.temperature = 10
    /\ results[2].data.temperature = 20
    /\ \E i \in Averages : report[i].n = 150

(* the entry of the mapping stored under a source *)
EntryOf(name) == results[CHOOSE i \in 1..Len(results) : results[i].name = name].data

(* the wind speed a provider's document gives, and its unit: km/h for the  *)
(* wind_kph of WeatherAPI and the windspeedKmph of wttr.in, the unit the   *)
(* document names for the wind_speed_10m of Open-Meteo                     *)
ProviderWind(name, data) ==
    CASE name = "WeatherAPI" ->
            [speed |-> DictGet(GetKey(data, "current"), "wind_kph", JNum(0)).n, unit |-> "km/h"]
      [] name = "wttr.in" ->
            [speed |-> IntOfString(DictGet(GetKey(data, "current_condition").kids[1],
                                           "windspeedKmph", JStr("0")).s),
             unit |-> "km/h"]
      [] OTHER ->
            [speed |-> DictGet(GetKey(data, "current"), "wind_speed_10m", JNum(0)).n,
             unit |-> IF HasKey(data, "current_units")
                      THEN DictGet(GetKey(data, "current_units"), "wind_speed_10m", JStr("m/s")).s
                      ELSE "m/s"]

(* C22, as stated: every snapshot's wind speed is the provider's in m/s    *)
(* (here in thousandths): a speed given in km/h is stored divided by 3.6,  *)
(* within 0.05 m/s, so that 36 km/h is stored as 10.0 m/s.                 *)
C22_EveryWindInMps ==
    \A i \in 1..Len(outcomes) :
        outcomes[i].kind = "ok" =>
            LET wind == ProviderWind(outcomes[i].name, outcomes[i].data)
                kept == EntryOf(outcomes[i].name).wind_speed
            IN  IF wind.unit = "km/h"
                THEN /\ Abs(36 * kept - 10000 * wind.speed) <= 36 * 50
                     /\ wind.speed = 36 => Abs(kept - 10000) <= 50
                ELSE kept = 1000 * wind.speed

(* the weather code of an Open-Meteo document that has a temperature: a    *)
(* number, a string, or null when the document has none                    *)
CodeOf(data) == DictGet(GetKey(data, "current"), "weather_code", JNull)

(* C23: an Open-Meteo document with a temperature yields a snapshot        *)
(* whatever its weather code: a number of the table gives the table's     *)
(* description (3 "Overcast", 99 "Thunderstorm with heavy hail"), a number *)
(* outside the table, a code that is not a number and a missing code give  *)
(* "Unknown".                                                              *)
C23_UnknownCodeStillSnapshot ==
    \A i \in 1..Len(outcomes) :
        (/\ outcomes[i].name = "Open-Meteo"
         /\ Truthy(outcomes[i].data)
         /\ CodeOf(outcomes[i].data).t \in {"num", "str", "null"}) =>
            /\ outcomes[i].kind = "ok"
            /\ EntryOf("Open-Meteo").description.t = "str"
            /\ EntryOf("Open-Meteo").description.s =
                  (CASE CodeOf(outcomes[i].data) = JNum(3) -> "Overcast"
                     [] CodeOf(outcomes[i].data) = JNum(99) -> "Thunderstorm with heavy hail"
                     [] OTHER -> "Unknown")

(* a run returned whose Open-Meteo document had a code outside the table   *)
(* and whose mapping holds its snapshot, described as "Unknown"            *)
C23_Witness ==
    /\ apc = "done"
    /\ CodeOf(outcomes[1].data) = JNum(4)
    /\ outcomes[1].kind = "ok"
    /\ EntryOf("Open-Meteo").description = JStr("Unknown")

----------------------------------------------------------------------------
(* Properties of the window and its worker thread (specification SpecGui)  *)

(* the main loop runs the _fetch_complete at the head of the queue *)
CompleteRuns ==
    /\ scheduled # <<>>
    /\ Head(scheduled).f = "_fetch_complete"
    /\ scheduled' = Tail(scheduled)

Outcomes == {"_update_display", "_handle_error"}

(* C25: a run that was started releases the window: is_fetching, once      *)
(* true, becomes false again.  The thread queues one of _update_display    *)
(* and _handle_error and then _fetch_complete, whether the run returned or *)
(* the constructor raised, so the queue is empty, or holds an outcome      *)
(* followed by _fetch_complete, or _fetch_complete alone; and is_fetching  *)
(* becomes false together with the button becoming enabled, when the       *)
(* thread is gone and the outcome is on display.                           *)
C25_RunReleasesWindow ==
    /\ is_fetching ~> ~is_fetching
    /\ [](\/ scheduled = <<>>
          \/ /\ Len(scheduled) = 2
             /\ scheduled[1].f \in Outcomes
             /\ scheduled[2].f = "_fetch_complete"
          \/ /\ Len(scheduled) = 1
             /\ scheduled[1].f = "_fetch_complete")
    /\ [][(is_fetching /\ ~is_fetching') =>
             /\ fetch_btn = "disabled" /\ fetch_btn' = "normal"
             /\ thread = NoThread
             /\ weather_text.kind \in {"results", "nodata", "error"}
             /\ scheduled' = <<>>]_vars

(* the constructor raised for want of the cache directory: the error is on *)
(* display and the window released                                         *)
C25_Witness ==
    /\ weather_text.kind = "error"
    /\ ~is_fetching
    /\ fetch_btn = "normal"
    /\ scheduled = <<>>
    /\ thread = NoThread

(* C26, as stated: the engine of a run holds the city, the latitude and    *)
(* the longitude that fetch_weather read from the entries and gave to the  *)
(* thread, and the cache flag that the checkbox gave when fetch_weather    *)
(* accepted the request, whatever the user changed since.                  *)
C26_ParametersAsAccepted ==
    thread.pc = "run" =>
        /\ engine.city = thread.city
        /\ engine.latitude = thread.lat
        /\ engine.longitude = thread.lon
        /\ engine.enable_cache = clicked.enable_cache

----------------------------------------------------------------------------
(* Properties of runs that follow one another (specification SpecRerun)    *)

(* the cache file of an adapter's request *)
CacheFileOf(name) ==
    _get_cache_key(hashSeed, AdapterUrl(name, engine), AdapterParams(name, engine))

(* the cache holds, readable and younger than the time to live, a document *)
(* for the adapter's request that the adapter rejects                      *)
FreshRejected(name) ==
    LET probe == Probe(files, CacheFileOf(name), now)
    IN  /\ FreshEntry(probe)
        /\ AdapterBody(name, Loads(probe.text).v, engine).kind = "none"

(* C27, as stated: in a pass of the loop made with the cache enabled, a    *)
(* document that a GET brought and the adapter rejected is in the cache    *)
(* after the pass; and a pass that finds such a document in the cache,     *)
(* younger than the time to live, issues no GET and leaves its source out  *)
(* of the mapping.                                                         *)
C27_RejectedDocumentStaysCached ==
    [][(apc = "loop" /\ pass'.n = pass.n + 1 /\ engine.enable_cache) =>
          LET name == api_functions[idx]
              last == outcomes'[Len(outcomes')]
          IN  /\ (pass'.gets > 0 /\ last.data # JNull /\ last.kind = "none") =>
                    /\ CacheFileOf(name) \in DOMAIN files'
                    /\ files'[CacheFileOf(name)].text = Dumps(last.data)
                    /\ files'[CacheFileOf(name)].mtime = now
              /\ FreshRejected(name) =>
                    /\ pass'.gets = 0
                    /\ \A i \in 1..Len(results') : results'[i].name # name]_vars

====
